---- MODULE Spec2Model ----
(***************************************************************************)
(* Dispatch core of the ride-hailing backend: the durable store (rides,    *)
(* ride_offers, trips, drivers), the presence cache, and the service        *)
(* operations that act on them.  Every service call runs on a worker; a     *)
(* call is split into one action per store/cache statement, so that calls   *)
(* interleave exactly where the Go code can be preempted between two        *)
(* statements.  Row locks (SELECT ... FOR UPDATE inside the AcceptRide      *)
(* transaction) block the statements that need the same row.                *)
(***************************************************************************)
EXTENDS Integers, Sequences, FiniteSets, TLC

\* ---------------------------------------------------------------- bounds
NumUsers == 2
NumDrivers == 2
MaxRides == 2
MaxTrips == 2
MaxProcs == 2
MaxKeys == 1
MaxTime == 16
MaxCreate == 2
MaxAccept == 2
MaxOther == 1
MaxReqs == 2
MaxFleet == 4
MaxDist == 1
MinRating == 3
MaxRating == 5
MaxBodies == 2
MaxKm == 10
RideKm == 5
MaxStart == 2
MaxEnd == 2
MaxTripMins == 3
MaxPay == 2
MaxClients == 2
RLRequests == 2
RLWindow == 3
MaxCount == 4
MaxRLTime == 6
MaxSubs == 2
ChanCap == 3
MaxMsgs == 4
MaxTopic == 1
MaxUpdates == 2
MaxMins == 20
MaxDemand == 30
MaxSupply == 10

\* ------------------------------------------------------ program constants
OfferTimeout == 15
MaxOffers == 3

Users == 1..NumUsers
RideIds == 1..MaxRides
Procs == 1..MaxProcs
Keys == 0..MaxKeys

\* The rate limiter's keys: a client address and a request path
RLPaths == {"/v1/rides"}

RLKeys == (1..MaxClients) \X RLPaths

\* The channels TrackRide makes, one per tracking request
Chans == 1..MaxSubs
NoKey == 0
NoDriver == 0
NoRide == 0
NoTrip == 0

RideStatusPending == "pending"
RideStatusMatching == "matching"
RideStatusDriverAssigned == "driver_assigned"
RideStatusDriverArrived == "driver_arrived"
RideStatusInProgress == "in_progress"
RideStatusCompleted == "completed"
RideStatusCancelled == "cancelled"

RideStatuses ==
    {RideStatusPending, RideStatusMatching, RideStatusDriverAssigned,
     RideStatusDriverArrived, RideStatusInProgress, RideStatusCompleted,
     RideStatusCancelled}

ValidRideTransitions ==
    [s \in RideStatuses |->
        CASE s = RideStatusPending -> {RideStatusMatching, RideStatusCancelled}
          [] s = RideStatusMatching -> {RideStatusDriverAssigned, RideStatusCancelled}
          [] s = RideStatusDriverAssigned -> {RideStatusDriverArrived, RideStatusCancelled}
          [] s = RideStatusDriverArrived -> {RideStatusInProgress, RideStatusCancelled}
          [] s = RideStatusInProgress -> {RideStatusCompleted, RideStatusCancelled}
          [] OTHER -> {}]

CanTransitionTo(status, newStatus) ==
    /\ status \in RideStatuses
    /\ newStatus \in ValidRideTransitions[status]

IsActive(status) == status \notin {RideStatusCompleted, RideStatusCancelled}

OfferStatusPending == "pending"
OfferStatusAccepted == "accepted"
OfferStatusDeclined == "declined"
OfferStatusExpired == "expired"
OfferAbsent == "absent"

DriverStatusOffline == "offline"
DriverStatusOnline == "online"
DriverStatusBusy == "busy"

TripStatusStarted == "started"
TripStatusPaused == "paused"
TripStatusCompleted == "completed"
TripStatusCancelled == "cancelled"

PaymentStatusPending == "pending"
PaymentStatusCompleted == "completed"

ValidTripTransitions ==
    [s \in {TripStatusStarted, TripStatusPaused, TripStatusCompleted, TripStatusCancelled} |->
        CASE s = TripStatusStarted -> {TripStatusPaused, TripStatusCompleted, TripStatusCancelled}
          [] s = TripStatusPaused -> {TripStatusStarted, TripStatusCompleted, TripStatusCancelled}
          [] OTHER -> {}]

TripCanTransitionTo(status, newStatus) == newStatus \in ValidTripTransitions[status]

CancelledByInputs == {"user", "driver"}

\* ------------------------------------------------------------------ state
VARIABLES
    rides,       \* table rides: sequence, the id of a ride is its index
    offers,      \* table ride_offers, keyed by the unique (ride_id, driver_id)
    trips,       \* table trips: sequence, the id of a trip is its index
    drivers,     \* table drivers: status, total_trips, current_lat/lng set
    meta,        \* presence cache driver:meta:<id> status field
    geo,         \* spatial index membership (within the matching radius)
    activeRide,  \* presence cache driver:active:<id>
    now,         \* wall clock, seconds
    procs,       \* the call each worker is executing and its local variables
    budget,      \* per operation, the calls the environment may still make
    commits,     \* per ride, AcceptRide transactions committed (history)
    issued,      \* the ride ids and trip ids that responses have handed out
    idemCache,   \* cache idempotency:<key>: the stored response, if any
    idemLock,    \* cache idempotency:<key>:lock and its time to live
    reqs,        \* the keyed unsafe requests passing through the middleware
    served,      \* per key, downstream executions that answered 2xx (history)
    quote,       \* the last call of the pricing service and what it returned
    payments,    \* table payments: sequence, the id of a payment is its index
    limiter,     \* cache ratelimit:<client>:<path>: the counter and its expiry
    answer,      \* the last request through the rate limiter and its outcome
    clients,     \* SSEHandler.clients: per ride, the registered channels
    chans,       \* the channels made by TrackRide and their streams
    topic,       \* messages published on driver:location:updates, undelivered
    dispatch     \* the pub/sub listener: its position and the message in hand

storeVars == <<rides, offers, trips, drivers, meta, geo, activeRide, procs, budget, commits, issued>>

idemVars == <<idemCache, idemLock, reqs, served>>

fareVars == <<quote>>

payVars == <<payments>>

rlVars == <<limiter, answer>>

sseVars == <<clients, chans, topic, dispatch>>

serviceVars == <<payVars, rlVars, sseVars>>

auxVars == <<fareVars, serviceVars>>

vars == <<storeVars, now, idemVars, auxVars>>

\* The registered drivers: the rows of table drivers
Drivers == DOMAIN drivers

OfferIds == RideIds \X Drivers

Idle ==
    [op |-> "idle", pc |-> "idle", user |-> 0, driver |-> NoDriver, ride |-> NoRide,
     offR |-> NoRide, offD |-> NoDriver, key |-> NoKey, trip |-> NoTrip, to |-> "",
     by |-> "",
     seen |-> "", seenDrv |-> NoDriver, seenOff |-> "", seenExp |-> 0, seenNow |-> 0,
     cands |-> <<>>, res |-> "", replay |-> FALSE,
     km |-> 0, mins |-> 0, fare |-> <<>>, payment |-> 0]

Done(rec, result) == [rec EXCEPT !.pc = "done", !.res = result]

\* --------------------------------------------------------- store queries

RideExists(r) == r \in 1..Len(rides)

\* A request names an id some response has handed out, or one of no row: the
\* ids are random UUIDs, which no client knows before it has been given them.
KnownRide(r) == r \in issued.rides \/ ~RideExists(r)

KnownTrip(t) == t \in issued.trips \/ t \notin 1..Len(trips)

\* SELECT * FROM rides WHERE idempotency_key = $1
GetByIdempotencyKey(k) == {r \in 1..Len(rides) : rides[r].key = k}

\* SELECT * FROM rides WHERE user_id = $1 AND status NOT IN (completed, cancelled)
GetActiveRideByUserID(u) ==
    {r \in 1..Len(rides) : rides[r].userId = u /\ IsActive(rides[r].status)}

\* SELECT * FROM rides WHERE driver_id = $1 AND status NOT IN (completed, cancelled)
GetActiveRideByDriverID(d) ==
    {r \in 1..Len(rides) : rides[r].driverId = d /\ IsActive(rides[r].status)}

\* SELECT * FROM trips WHERE ride_id = $1
GetByRideID(r) == {t \in 1..Len(trips) : trips[t].rideId = r}

\* RideOffer.IsExpired: time.Now().After(o.ExpiresAt)
IsExpired(expiresAt, t) == t > expiresAt

\* ride_offers rows with status = pending AND expires_at > NOW() for a driver
GetPendingByDriverID(d) ==
    {o \in OfferIds : /\ o[2] = d
                      /\ offers[o].status = OfferStatusPending
                      /\ offers[o].expiresAt > now}

\* ---------------------------------------------------------------- locks
\* The AcceptRide transaction holds the offer row from its SELECT ... FOR
\* UPDATE on ride_offers, and the ride row from its SELECT ... FOR UPDATE on
\* rides, until it commits or rolls back.

HoldsOffer(q, o) ==
    /\ procs[q].op = "AcceptRide"
    /\ procs[q].pc \in {"ar_ride", "ar_commit"}
    /\ <<procs[q].offR, procs[q].offD>> = o

HoldsRide(q, r) ==
    /\ procs[q].op = "AcceptRide"
    /\ procs[q].pc = "ar_commit"
    /\ procs[q].ride = r

OfferLocked(o, p) == \E q \in Procs \ {p} : HoldsOffer(q, o)

RideLocked(r, p) == \E q \in Procs \ {p} : HoldsRide(q, r)

\* The rows the UPDATE ... WHERE ride_id = $3 AND status = pending touches.
PendingSiblings(r) ==
    {o \in OfferIds : o[1] = r /\ offers[o].status = OfferStatusPending}

\* p waits for a row lock that q holds.
WaitsFor(p, q) ==
    /\ p # q
    /\ procs[p].op = "AcceptRide"
    /\ \/ /\ procs[p].pc = "ar_ride"
          /\ HoldsRide(q, procs[p].ride)
       \/ /\ procs[p].pc = "ar_commit"
          /\ \E o \in PendingSiblings(procs[p].ride) : HoldsOffer(q, o)

InLockCycle(p) == \E q \in Procs : WaitsFor(p, q) /\ WaitsFor(q, p)


\* ------------------------------------------------------------- workers
\* A new call is taken by the lowest idle worker.
LeastIdle(p) == procs[p] = Idle /\ \A q \in Procs : q < p => procs[q] # Idle

OpNames ==
    {"CreateRide", "AcceptRide", "DeclineRide", "CancelRide", "UpdateRideStatus",
     "StartTrip", "EndTrip", "PauseTrip", "ResumeTrip", "GoOnline", "GoOffline",
     "UpdateLocation", "ProcessPayment"}

MaxCallsOf(op) ==
    CASE op = "CreateRide" -> MaxCreate
      [] op = "AcceptRide" -> MaxAccept
      [] OTHER -> MaxOther

CanStart(p, op) == LeastIdle(p) /\ budget[op] > 0

Called(op) == budget' = [budget EXCEPT ![op] = @ - 1]

SetProc(p, rec) == procs' = [procs EXCEPT ![p] = rec]

\* CreateRide calls that have not inserted their ride yet.
CreatesInFlight ==
    Cardinality({q \in Procs : procs[q].op = "CreateRide"
                               /\ procs[q].pc \in {"cr_active", "cr_insert"}})

\* StartTrip calls that have not inserted their trip yet.
StartsInFlight ==
    Cardinality({q \in Procs : procs[q].op = "StartTrip"
                               /\ procs[q].pc \in {"st_check", "st_insert"}})

\* ------------------------------------------------ idempotency middleware
\* IdempotencyMiddleware.Handler, for requests with an unsafe method that
\* carry an Idempotency-Key.
LockTTL == 30

Reqs == 1..MaxReqs

\* The values of the Idempotency-Key header that engage the middleware
IdemKeys == Keys \ {NoKey}

Bodies == 1..MaxBodies

NoReq == 0

\* hashBody: the hex SHA-256 digest of the request body
hashBody(b) == <<"sha256", b>>

NoResponse == [status |-> 0, body |-> ""]

\* getCachedResponse found nothing at the key
NoCached == [statusCode |-> 0, body |-> "", bodyHash |-> <<>>]

\* The lock key does not exist
NoLock == [held |-> FALSE, expires |-> 0, owner |-> NoReq]

NewReq == [pc |-> "new", key |-> NoKey, body |-> 0, cancelled |-> FALSE, resp |-> NoResponse]

\* What the wrapped handler can answer: a 2xx response or an error.
HandlerResponses ==
    {[status |-> 201, body |-> "created"],
     [status |-> 400, body |-> "bad_request"], [status |-> 500, body |-> "internal_error"]}

IdempotencyConflict == [status |-> 409, body |-> "idempotency_conflict"]

RequestInProgress == [status |-> 409, body |-> "request_in_progress"]

IsSuccess(code) == code >= 200 /\ code < 300

\* The lock key exists: it was set and its time to live has not run out.
LockHeld(k) == idemLock[k].held /\ now < idemLock[k].expires

IdemInit ==
    /\ idemCache = [k \in IdemKeys |-> NoCached]
    /\ idemLock = [k \in IdemKeys |-> NoLock]
    /\ reqs = [i \in Reqs |-> NewReq]
    /\ served = [k \in IdemKeys |-> 0]

\* ------------------------------------------------------- pricing service
\* float64 amounts are held as integers: money inside calculateFare in
\* 1/Scale rupee, a returned field in paise (1/100 rupee) after round;
\* distances in metres (1/1000 km), surge multipliers and per-minute rates in
\* tenths.
Scale == 10000

VehicleTypeAuto == "auto"
VehicleTypeMini == "mini"
VehicleTypeSedan == "sedan"
VehicleTypeSUV == "suv"

\* var fareConfigs; PerMinRate in tenths of a rupee
fareConfigs ==
    [auto  |-> [BaseFare |-> 25, PerKmRate |-> 12, PerMinRate |-> 10, MinFare |-> 30],
     mini  |-> [BaseFare |-> 40, PerKmRate |-> 14, PerMinRate |-> 12, MinFare |-> 50],
     sedan |-> [BaseFare |-> 50, PerKmRate |-> 17, PerMinRate |-> 15, MinFare |-> 80],
     suv   |-> [BaseFare |-> 80, PerKmRate |-> 22, PerMinRate |-> 20, MinFare |-> 120]]

\* math.Round(f*100) / 100: to the nearest paisa, halves away from zero
round(f) ==
    IF f >= 0 THEN (f + Scale \div 200) \div (Scale \div 100)
    ELSE 0 - ((Scale \div 200 - f) \div (Scale \div 100))

\* A faulty fare computation that forgets the minimum fare.
calculateFareUnclamped(vehicleType, distanceKm, durationMins, surgeMultiplier) ==
    LET config == IF vehicleType \in DOMAIN fareConfigs THEN fareConfigs[vehicleType]
                  ELSE fareConfigs[VehicleTypeSedan]
        baseFare == config.BaseFare * Scale
        distanceFare == distanceKm * config.PerKmRate * (Scale \div 1000)
        timeFare == durationMins * config.PerMinRate * (Scale \div 10)
        subtotal == baseFare + distanceFare + timeFare
        surgeAmount == (subtotal * (surgeMultiplier - 10)) \div 10
    IN  [BaseFare |-> round(baseFare), DistanceFare |-> round(distanceFare),
         TimeFare |-> round(timeFare), SurgeAmount |-> round(surgeAmount),
         Total |-> round(subtotal + surgeAmount)]

\* pricingService.calculateFare
calculateFare(vehicleType, distanceKm, durationMins, surgeMultiplier) ==
    LET config == IF vehicleType \in DOMAIN fareConfigs THEN fareConfigs[vehicleType]
                  ELSE fareConfigs[VehicleTypeSedan]
        baseFare == config.BaseFare * Scale
        distanceFare == distanceKm * config.PerKmRate * (Scale \div 1000)
        timeFare == durationMins * config.PerMinRate * (Scale \div 10)
        subtotal == baseFare + distanceFare + timeFare
        surgeAmount == (subtotal * (surgeMultiplier - 10)) \div 10
        total == subtotal + surgeAmount
        belowMin == total < config.MinFare * Scale
    IN  [BaseFare |-> round(baseFare), DistanceFare |-> round(distanceFare),
         TimeFare |-> round(timeFare),
         SurgeAmount |-> round(IF belowMin THEN 0 ELSE surgeAmount),
         Total |-> round(IF belowMin THEN config.MinFare * Scale ELSE total)]

CalculateEstimatedFare(vehicleType, distanceKm, durationMins, surgeMultiplier) ==
    calculateFare(vehicleType, distanceKm, durationMins, surgeMultiplier)

CalculateActualFare(vehicleType, distanceKm, durationMins, surgeMultiplier) ==
    calculateFare(vehicleType, distanceKm, durationMins, surgeMultiplier)

\* The surge steps taken on the integer quotient of the two counts.
CalculateSurgeTruncated(demandCount, supplyCount) ==
    IF supplyCount = 0 THEN 20
    ELSE LET ratio == demandCount \div supplyCount
         IN  IF ratio < 1 THEN 10
             ELSE IF ratio < 2 THEN 12
             ELSE IF ratio < 3 THEN 18
             ELSE 20

\* pricingService.CalculateSurge: steps on ratio = demand / supply
CalculateSurge(demandCount, supplyCount) ==
    IF supplyCount = 0 THEN 20
    ELSE IF demandCount < supplyCount THEN 10
    ELSE IF 2 * demandCount < 3 * supplyCount THEN 12
    ELSE IF demandCount < 2 * supplyCount THEN 15
    ELSE IF demandCount < 3 * supplyCount THEN 18
    ELSE 20

\* pricingService.EstimateDuration: ceil(km / 25 * 60) minutes, at least 5
EstimateDuration(distanceKm) ==
    LET durationMins == (distanceKm * 60 + 24999) \div 25000
    IN  IF durationMins < 5 THEN 5 ELSE durationMins

NoQuote == [fn |-> "", vehicleType |-> "", distanceKm |-> 0, durationMins |-> 0,
            surgeMultiplier |-> 0, out |-> <<>>]

\* The services beside the ride store, before their first request.
\* A tracking request that has not arrived: no channel made
NoChan == [state |-> "none", ride |-> NoRide, buf |-> <<>>, last |-> 0]

NoAnswer == [key |-> <<>>, count |-> 0, allowed |-> TRUE]

ServiceInit ==
    /\ payments = <<>>
    /\ limiter = [k \in RLKeys |-> [count |-> 0, expiresAt |-> 0, firstAt |-> 0]]
    /\ answer = NoAnswer
    /\ clients = <<>>
    /\ chans = [c \in Chans |-> NoChan]
    /\ topic = <<>>
    /\ dispatch = [pc |-> "idle", msg |-> <<>>, todo |-> {}, published |-> 0,
                   panicked |-> FALSE]

\* ------------------------------------------------------------------ Init
\* The stores after seeding: users and drivers are registered, no ride has
\* been requested.  A registered driver is offline with no location, or has
\* gone online and reported a location within the matching radius.
\* The profile of a driver is a distance to the pickup point (km) and a
\* rating, or Offline for a driver who has not gone online.
Offline == <<>>

Profiles == {Offline} \cup ((0..MaxDist) \X {MinRating, MaxRating})

\* drivers.rating DEFAULT 5.0, at the pickup point
DefaultProfiles == {Offline, <<0, MaxRating>>}

InitFleet(fleet, profiles) ==
    /\ \E profile \in [fleet -> profiles] :
          /\ drivers = [d \in fleet |->
                          [status |-> IF profile[d] # Offline THEN DriverStatusOnline
                                      ELSE DriverStatusOffline,
                           totalTrips |-> 0,
                           located |-> profile[d] # Offline,
                           dist |-> IF profile[d] # Offline THEN profile[d][1] ELSE 0,
                           rating |-> IF profile[d] # Offline THEN profile[d][2]
                                      ELSE MaxRating]]
          /\ meta = [d \in fleet |-> IF profile[d] # Offline THEN DriverStatusOnline
                                      ELSE "absent"]
          /\ geo = [d \in fleet |-> profile[d] # Offline]
    /\ rides = <<>>
    /\ offers = [o \in OfferIds |-> [status |-> OfferAbsent, expiresAt |-> 0, rows |-> 0]]
    /\ trips = <<>>
    /\ activeRide = [d \in Drivers |-> NoRide]
    /\ now = 0
    /\ procs = [p \in Procs |-> Idle]
    /\ commits = [r \in RideIds |-> 0]
    /\ issued = [rides |-> {}, trips |-> {}]
    /\ IdemInit
    /\ quote = NoQuote
    /\ ServiceInit

InitStore == InitFleet(1..NumDrivers, DefaultProfiles)

\* Every operation may be called, CreateRide and AcceptRide more than once.
Init ==
    /\ InitStore
    /\ budget = [op \in OpNames |-> MaxCallsOf(op)]

\* ------------------------------------------------------------ CreateRide
\* rideService.CreateRide(req{UserID}, idempotencyKey)

\* The idempotency lookup; without a key the call goes on to the user's
\* active-ride lookup.
CR_Start(p, u, k) ==
    /\ CanStart(p, "CreateRide")
    /\ Len(rides) + CreatesInFlight < MaxRides
    /\ LET rec == [Idle EXCEPT !.op = "CreateRide", !.user = u, !.key = k]
           hit == GetByIdempotencyKey(k)
       IN  IF k # NoKey /\ hit # {}
           THEN \E r \in hit :
                   SetProc(p, Done([rec EXCEPT !.ride = r, !.seen = rides[r].status,
                                               !.replay = TRUE], "OK"))
           ELSE SetProc(p, [rec EXCEPT !.pc = "cr_active"])
    /\ Called("CreateRide")
    /\ UNCHANGED <<rides, offers, trips, drivers, meta, geo, activeRide, now, commits, issued, idemVars, auxVars>>

CR_CheckActive(p) ==
    /\ procs[p].op = "CreateRide" /\ procs[p].pc = "cr_active"
    /\ IF GetActiveRideByUserID(procs[p].user) # {}
       THEN SetProc(p, Done(procs[p], "ACTIVE_RIDE_EXISTS"))
       ELSE SetProc(p, [procs[p] EXCEPT !.pc = "cr_insert"])
    /\ UNCHANGED <<rides, offers, trips, drivers, meta, geo, activeRide, now, budget, commits, issued, idemVars, auxVars>>

\* rideRepository.Create: INSERT INTO rides, status pending; the unique
\* idempotency_key rejects a second ride with the same key.
\* cache.GetNearbyDrivers: members of the spatial index whose meta status is online
GetNearbyDrivers == {d \in Drivers : geo[d] /\ meta[d] = DriverStatusOnline}

\* The surge of the pickup cell: driverCache.GetNearbyDrivers within 2 km;
\* fewer than five drivers there give CalculateSurge(10, count), else 1.0.
SurgeAtPickup ==
    LET nearbyDrivers == {d \in GetNearbyDrivers : drivers[d].dist <= 2}
    IN  IF Cardinality(nearbyDrivers) < 5
        THEN CalculateSurge(10, Cardinality(nearbyDrivers))
        ELSE 10

\* The fare CreateRide estimates for a sedan ride of the given distance.
EstimatedFare(distanceKm) ==
    CalculateEstimatedFare(VehicleTypeSedan, distanceKm, EstimateDuration(distanceKm),
                           SurgeAtPickup)

\* The surge read from the presence cache, and rideRepo.Create: INSERT INTO
\* rides with status pending; Create sets ride.SurgeMultiplier = 1.0 before
\* the INSERT.
CR_Insert(p) ==
    /\ procs[p].op = "CreateRide" /\ procs[p].pc = "cr_insert"
    /\ IF procs[p].key # NoKey /\ GetByIdempotencyKey(procs[p].key) # {}
       THEN /\ SetProc(p, Done(procs[p], "INTERNAL"))
            /\ UNCHANGED rides
       ELSE /\ rides' = Append(rides,
                          [userId |-> procs[p].user, driverId |-> NoDriver,
                           status |-> RideStatusPending, key |-> procs[p].key,
                           cancelledBy |-> "",
                           vehicleType |-> VehicleTypeSedan,
                           estimatedDistanceKm |-> RideKm * 1000,
                           estimatedFare |-> EstimatedFare(RideKm * 1000).Total,
                           surgeMultiplier |-> 10])
            /\ SetProc(p, [procs[p] EXCEPT !.pc = "cr_matching", !.ride = Len(rides) + 1])
    /\ UNCHANGED <<offers, trips, drivers, meta, geo, activeRide, now, budget, commits, issued, idemVars, auxVars>>

\* rideRepository.UpdateStatus(ride.ID, matching): UPDATE rides SET status.
CR_SetMatching(p) ==
    /\ procs[p].op = "CreateRide" /\ procs[p].pc = "cr_matching"
    /\ ~RideLocked(procs[p].ride, p)
    /\ rides' = [rides EXCEPT ![procs[p].ride].status = RideStatusMatching]
    /\ SetProc(p, Done([procs[p] EXCEPT !.seen = RideStatusMatching], "OK"))
    /\ UNCHANGED <<offers, trips, drivers, meta, geo, activeRide, now, budget, commits, issued, idemVars, auxVars>>

\* rideRepository.UpdateStatus returns an error (the statement did not run):
\* the error is logged, ride.Status is set to matching all the same and the
\* ride is returned.
CR_SetMatchingFails(p) ==
    /\ procs[p].op = "CreateRide" /\ procs[p].pc = "cr_matching"
    /\ SetProc(p, Done([procs[p] EXCEPT !.seen = RideStatusMatching], "OK"))
    /\ UNCHANGED <<rides, offers, trips, drivers, meta, geo, activeRide, now, budget, commits, issued, idemVars, auxVars>>

\* --------------------------------------------------- FindAndOfferDrivers
\* The goroutine RideHandler.CreateRide starts after a successful CreateRide.

\* driverRepo.GetOnlineDriversByVehicleType
GetOnlineDrivers ==
    {d \in Drivers : drivers[d].status = DriverStatusOnline /\ drivers[d].located}

\* matchingService.scoreDrivers: the candidates that are kept
ScoreDrivers(r, candidates) ==
    {d \in candidates : /\ offers[<<r, d>>].status = OfferAbsent
                        /\ meta[d] = DriverStatusOnline
                        /\ activeRide[d] = NoRide}

Min(a, b) == IF a < b THEN a ELSE b

\* scoreDrivers: 100 - 10 per km + 5 per rating point; the distance is the
\* one the spatial index reported, and 0 for a driver of the fallback query
Score(d, nearby) ==
    100 - 10 * (IF d \in nearby THEN drivers[d].dist ELSE 0) + 5 * drivers[d].rating

\* sort.Slice by score, highest first.  The sort is not stable and compares
\* nothing but the score: drivers of equal score come out in any order.
SortedByScore(ds, nearby) ==
    {seq \in [1..Cardinality(ds) -> ds] :
        /\ \A i, j \in 1..Cardinality(ds) : i # j => seq[i] # seq[j]
        /\ \A i, j \in 1..Cardinality(ds) :
              i < j => Score(seq[i], nearby) >= Score(seq[j], nearby)}

\* A table without the unique constraint: no insert is rejected.
UniqueViolationNever(o) == FALSE

\* INSERT INTO ride_offers is rejected when a row with this (ride_id,
\* driver_id) exists.
UniqueViolation(o) == offers[o].rows > 0

\* A run that cancels the ride also when drivers were found and every one
\* of them was filtered out.
M_SelectOrCancel(p) ==
    /\ procs[p].op = "Match" /\ procs[p].pc = "m_select"
    /\ LET r == procs[p].ride
           nearby == {d \in Drivers : geo[d] /\ meta[d] = DriverStatusOnline}
           candidates == IF nearby # {} THEN nearby
                         ELSE {d \in Drivers : drivers[d].status = DriverStatusOnline
                                               /\ drivers[d].located}
           scored == ScoreDrivers(r, candidates)
       IN  IF scored = {}
           THEN SetProc(p, [procs[p] EXCEPT !.pc = "m_cancel"])
           ELSE \E sorted \in SortedByScore(scored, nearby) :
                   SetProc(p, [procs[p] EXCEPT
                                  !.pc = "m_offer",
                                  !.cands = SubSeq(sorted, 1, Min(MaxOffers, Len(sorted)))])
    /\ UNCHANGED <<rides, offers, trips, drivers, meta, geo, activeRide, now, budget, commits, issued, idemVars, auxVars>>

M_Select(p) ==
    /\ procs[p].op = "Match" /\ procs[p].pc = "m_select"
    /\ LET r == procs[p].ride
           nearby == GetNearbyDrivers
           candidates == IF nearby # {} THEN nearby ELSE GetOnlineDrivers
           scored == ScoreDrivers(r, candidates)
       IN  IF candidates = {}
           THEN SetProc(p, [procs[p] EXCEPT !.pc = "m_cancel"])
           ELSE IF scored = {}
           THEN SetProc(p, Idle)
           ELSE \E sorted \in SortedByScore(scored, nearby) :
                   SetProc(p, [procs[p] EXCEPT
                                  !.pc = "m_offer",
                                  !.cands = SubSeq(sorted, 1, Min(MaxOffers, Len(sorted)))])
    /\ UNCHANGED <<rides, offers, trips, drivers, meta, geo, activeRide, now, budget, commits, issued, idemVars, auxVars>>

\* rideRepo.Cancel(ride.ID, "system", "no drivers available")
M_Cancel(p) ==
    /\ procs[p].op = "Match" /\ procs[p].pc = "m_cancel"
    /\ ~RideLocked(procs[p].ride, p)
    /\ rides' = [rides EXCEPT ![procs[p].ride].status = RideStatusCancelled,
                              ![procs[p].ride].cancelledBy = "system"]
    /\ SetProc(p, Idle)
    /\ UNCHANGED <<offers, trips, drivers, meta, geo, activeRide, now, budget, commits, issued, idemVars, auxVars>>

\* offerRepo.Create for the next driver: INSERT INTO ride_offers, pending,
\* expires_at = now + offerTimeout; UNIQUE(ride_id, driver_id) rejects a
\* duplicate, which is logged and skipped.  The foreign key on ride_id takes a
\* key-share lock on the ride row.
M_Offer(p, d) ==
    /\ procs[p].op = "Match" /\ procs[p].pc = "m_offer"
    /\ d = Head(procs[p].cands)
    /\ ~RideLocked(procs[p].ride, p)
    /\ LET o == <<procs[p].ride, d>>
           rest == Tail(procs[p].cands)
       IN  /\ offers' = IF UniqueViolation(o)
                        THEN offers
                        ELSE [offers EXCEPT ![o] = [status |-> OfferStatusPending,
                                                    expiresAt |-> now + OfferTimeout,
                                                    rows |-> offers[o].rows + 1]]
           /\ IF rest = <<>>
              THEN SetProc(p, Idle)
              ELSE SetProc(p, [procs[p] EXCEPT !.cands = rest])
    /\ UNCHANGED <<rides, trips, drivers, meta, geo, activeRide, now, budget, commits, issued, idemVars, auxVars>>

\* The goroutine runs on the request's context, which is cancelled when the
\* handler returns: every later store or cache call fails and the run ends.
M_CtxCancelled(p) ==
    /\ procs[p].op = "Match"
    /\ SetProc(p, Idle)
    /\ UNCHANGED <<rides, offers, trips, drivers, meta, geo, activeRide, now, budget, commits, issued, idemVars, auxVars>>

\* ------------------------------------------------------------ AcceptRide
\* driverService.AcceptRide(driverID, req{RideID, OfferID}); the offer id is
\* the (ride_id, driver_id) pair of its row.

\* The checks on the offer row, in the order of the code; "" when all pass.
AcceptOfferCheck(offStatus, offDriver, offRide, expiresAt, driverID, rideID, t) ==
    IF offStatus = OfferAbsent THEN "NOT_FOUND"
    ELSE IF offDriver # driverID THEN "UNAUTHORIZED"
    ELSE IF offRide # rideID THEN "BAD_REQUEST"
    ELSE IF IsExpired(expiresAt, t) THEN "OFFER_EXPIRED"
    ELSE IF offStatus # OfferStatusPending THEN "BAD_REQUEST"
    ELSE ""

\* A faulty availability test that lets every ride through, whatever its
\* status; under it two accepts of one ride can both commit.
RideAvailableAlways(status) == status \in RideStatuses

\* ride.Status != models.RideStatusMatching => RideAlreadyAssigned
RideAvailable(status) == status = RideStatusMatching

\* offerRepo.GetByIDForUpdate and the validation of the offer
AR_Start(p, d, rr, o) ==
    /\ CanStart(p, "AcceptRide")
    /\ ~OfferLocked(o, p)
    /\ LET off == offers[o]
           rec == [Idle EXCEPT !.op = "AcceptRide", !.driver = d, !.ride = rr,
                               !.offR = o[1], !.offD = o[2], !.seenOff = off.status,
                               !.seenExp = off.expiresAt, !.seenNow = now]
           err == AcceptOfferCheck(off.status, o[2], o[1], off.expiresAt, d, rr, now)
       IN  IF err # ""
           THEN SetProc(p, Done(rec, err))
           ELSE SetProc(p, [rec EXCEPT !.pc = "ar_ride"])
    /\ Called("AcceptRide")
    /\ UNCHANGED <<rides, offers, trips, drivers, meta, geo, activeRide, now, commits, issued, idemVars, auxVars>>

\* rideRepo.GetByIDForUpdate and the check of the ride's status
AR_LockRide(p) ==
    /\ procs[p].op = "AcceptRide" /\ procs[p].pc = "ar_ride"
    /\ ~RideLocked(procs[p].ride, p)
    /\ LET st == rides[procs[p].ride].status
       IN  IF RideAvailable(st)
           THEN SetProc(p, [procs[p] EXCEPT !.pc = "ar_commit", !.seen = st])
           ELSE SetProc(p, Done([procs[p] EXCEPT !.seen = st], "RIDE_ALREADY_ASSIGNED"))
    /\ UNCHANGED <<rides, offers, trips, drivers, meta, geo, activeRide, now, budget, commits, issued, idemVars, auxVars>>

\* A faulty commit that forgets to expire the other pending offers of the
\* ride.
SiblingStatusKept(o, accepted) ==
    IF o = accepted THEN OfferStatusAccepted ELSE offers[o].status

\* The status the sibling-expiry UPDATE leaves on offer o of the ride.
SiblingStatus(o, accepted) ==
    IF o = accepted THEN OfferStatusAccepted
    ELSE IF offers[o].status = OfferStatusPending THEN OfferStatusExpired
    ELSE offers[o].status

\* The four UPDATEs and tx.Commit().  The last UPDATE needs the row lock of
\* every pending offer of the ride; the writes become visible together.
AR_Commit(p) ==
    /\ procs[p].op = "AcceptRide" /\ procs[p].pc = "ar_commit"
    /\ \A o \in PendingSiblings(procs[p].ride) : ~OfferLocked(o, p)
    /\ LET r == procs[p].ride
           d == procs[p].driver
           mine == <<procs[p].offR, procs[p].offD>>
       IN  /\ offers' = [o \in OfferIds |->
                            IF o[1] = r
                            THEN [offers[o] EXCEPT !.status = SiblingStatus(o, mine)]
                            ELSE offers[o]]
           /\ rides' = [rides EXCEPT ![r].driverId = d,
                                     ![r].status = RideStatusDriverAssigned]
           /\ drivers' = [drivers EXCEPT ![d].status = DriverStatusBusy]
           /\ commits' = [commits EXCEPT ![r] = @ + 1]
    /\ SetProc(p, [procs[p] EXCEPT !.pc = "ar_cache"])
    /\ UNCHANGED <<trips, meta, geo, activeRide, now, budget, issued, idemVars, auxVars>>

\* driverCache.SetActiveRide after the commit
AR_SetActiveRide(p) ==
    /\ procs[p].op = "AcceptRide" /\ procs[p].pc = "ar_cache"
    /\ activeRide' = [activeRide EXCEPT ![procs[p].driver] = procs[p].ride]
    /\ SetProc(p, Done(procs[p], "OK"))
    /\ UNCHANGED <<rides, offers, trips, drivers, meta, geo, now, budget, commits, issued, idemVars, auxVars>>

\* The store detects a lock-wait cycle and aborts one transaction of it; the
\* raw error reaches the handler, which answers INTERNAL; defer tx.Rollback().
AR_Deadlock(p) ==
    /\ InLockCycle(p)
    /\ SetProc(p, Done(procs[p], "INTERNAL"))
    /\ UNCHANGED <<rides, offers, trips, drivers, meta, geo, activeRide, now, budget, commits, issued, idemVars, auxVars>>

\* ----------------------------------------------------------- DeclineRide
\* driverService.DeclineRide(driverID, offerID): a plain read, the checks, then
\* UPDATE ride_offers SET status = declined WHERE id = $3.

DeclineOfferCheck(offStatus, offDriver, driverID) ==
    IF offStatus = OfferAbsent THEN "NOT_FOUND"
    ELSE IF offDriver # driverID THEN "UNAUTHORIZED"
    ELSE IF offStatus # OfferStatusPending THEN "BAD_REQUEST"
    ELSE ""

DR_Start(p, d, o) ==
    /\ CanStart(p, "DeclineRide")
    /\ LET rec == [Idle EXCEPT !.op = "DeclineRide", !.driver = d, !.offR = o[1],
                               !.offD = o[2], !.seenOff = offers[o].status]
           err == DeclineOfferCheck(offers[o].status, o[2], d)
       IN  IF err # ""
           THEN SetProc(p, Done(rec, err))
           ELSE SetProc(p, [rec EXCEPT !.pc = "dr_write"])
    /\ Called("DeclineRide")
    /\ UNCHANGED <<rides, offers, trips, drivers, meta, geo, activeRide, now, commits, issued, idemVars, auxVars>>

DR_Write(p) ==
    /\ procs[p].op = "DeclineRide" /\ procs[p].pc = "dr_write"
    /\ ~OfferLocked(<<procs[p].offR, procs[p].offD>>, p)
    /\ offers' = [offers EXCEPT ![<<procs[p].offR, procs[p].offD>>].status = OfferStatusDeclined]
    /\ SetProc(p, Done(procs[p], "OK"))
    /\ UNCHANGED <<rides, trips, drivers, meta, geo, activeRide, now, budget, commits, issued, idemVars, auxVars>>

\* ------------------------------------------------------------ CancelRide
\* rideService.CancelRide(id, req{CancelledBy})

CA_Start(p, r, by) ==
    /\ CanStart(p, "CancelRide")
    /\ KnownRide(r)
    /\ LET rec == [Idle EXCEPT !.op = "CancelRide", !.ride = r, !.by = by]
       IN  IF ~RideExists(r)
           THEN SetProc(p, Done(rec, "NOT_FOUND"))
           ELSE IF ~CanTransitionTo(rides[r].status, RideStatusCancelled)
           THEN SetProc(p, Done([rec EXCEPT !.seen = rides[r].status], "INVALID_TRANSITION"))
           ELSE SetProc(p, [rec EXCEPT !.pc = "ca_write", !.seen = rides[r].status,
                                       !.seenDrv = rides[r].driverId])
    /\ Called("CancelRide")
    /\ UNCHANGED <<rides, offers, trips, drivers, meta, geo, activeRide, now, commits, issued, idemVars, auxVars>>

\* rideRepo.Cancel: UPDATE rides SET status = cancelled, cancelled_by WHERE id
CA_Write(p) ==
    /\ procs[p].op = "CancelRide" /\ procs[p].pc = "ca_write"
    /\ ~RideLocked(procs[p].ride, p)
    /\ rides' = [rides EXCEPT ![procs[p].ride].status = RideStatusCancelled,
                              ![procs[p].ride].cancelledBy = procs[p].by]
    /\ IF procs[p].seenDrv # NoDriver
       THEN SetProc(p, [procs[p] EXCEPT !.pc = "ca_driver"])
       ELSE SetProc(p, Done(procs[p], "OK"))
    /\ UNCHANGED <<offers, trips, drivers, meta, geo, activeRide, now, budget, commits, issued, idemVars, auxVars>>

\* driverRepo.UpdateStatus(*ride.DriverID, online), for the driver that was read
CA_Driver(p) ==
    /\ procs[p].op = "CancelRide" /\ procs[p].pc = "ca_driver"
    /\ drivers' = [drivers EXCEPT ![procs[p].seenDrv].status = DriverStatusOnline]
    /\ SetProc(p, Done(procs[p], "OK"))
    /\ UNCHANGED <<rides, offers, trips, meta, geo, activeRide, now, budget, commits, issued, idemVars, auxVars>>

\* ------------------------------------------------------ UpdateRideStatus
\* rideService.UpdateRideStatus(id, status)

URS_Start(p, r, to) ==
    /\ CanStart(p, "UpdateRideStatus")
    /\ KnownRide(r)
    /\ LET rec == [Idle EXCEPT !.op = "UpdateRideStatus", !.ride = r, !.to = to]
       IN  IF ~RideExists(r)
           THEN SetProc(p, Done(rec, "NOT_FOUND"))
           ELSE IF ~CanTransitionTo(rides[r].status, to)
           THEN SetProc(p, Done([rec EXCEPT !.seen = rides[r].status], "INVALID_TRANSITION"))
           ELSE SetProc(p, [rec EXCEPT !.pc = "urs_write", !.seen = rides[r].status])
    /\ Called("UpdateRideStatus")
    /\ UNCHANGED <<rides, offers, trips, drivers, meta, geo, activeRide, now, commits, issued, idemVars, auxVars>>

\* rideRepo.UpdateStatus: UPDATE rides SET status = $1 WHERE id = $3
URS_Write(p) ==
    /\ procs[p].op = "UpdateRideStatus" /\ procs[p].pc = "urs_write"
    /\ ~RideLocked(procs[p].ride, p)
    /\ rides' = [rides EXCEPT ![procs[p].ride].status = procs[p].to]
    /\ SetProc(p, Done(procs[p], "OK"))
    /\ UNCHANGED <<offers, trips, drivers, meta, geo, activeRide, now, budget, commits, issued, idemVars, auxVars>>

\* ------------------------------------------------------------- StartTrip
\* tripService.StartTrip(rideID)

ST_Start(p, r) ==
    /\ CanStart(p, "StartTrip")
    /\ KnownRide(r)
    /\ LET rec == [Idle EXCEPT !.op = "StartTrip", !.ride = r]
       IN  IF ~RideExists(r)
           THEN SetProc(p, Done(rec, "NOT_FOUND"))
           ELSE IF rides[r].status # RideStatusDriverArrived \/ rides[r].driverId = NoDriver
           THEN SetProc(p, Done([rec EXCEPT !.seen = rides[r].status], "BAD_REQUEST"))
           ELSE /\ Len(trips) + StartsInFlight < MaxTrips
                /\ SetProc(p, [rec EXCEPT !.pc = "st_check", !.seen = rides[r].status,
                                          !.seenDrv = rides[r].driverId])
    /\ Called("StartTrip")
    /\ UNCHANGED <<rides, offers, trips, drivers, meta, geo, activeRide, now, commits, issued, idemVars, auxVars>>

\* tripRepo.GetByRideID: an existing trip is returned as it is
ST_CheckTrip(p) ==
    /\ procs[p].op = "StartTrip" /\ procs[p].pc = "st_check"
    /\ IF GetByRideID(procs[p].ride) # {}
       THEN \E t \in GetByRideID(procs[p].ride) :
               SetProc(p, Done([procs[p] EXCEPT !.trip = t], "OK"))
       ELSE SetProc(p, [procs[p] EXCEPT !.pc = "st_insert"])
    /\ UNCHANGED <<rides, offers, trips, drivers, meta, geo, activeRide, now, budget, commits, issued, idemVars, auxVars>>

\* tripRepo.Create: INSERT INTO trips, status started, start_time = now; the
\* table has no unique constraint on ride_id
ST_Insert(p) ==
    /\ procs[p].op = "StartTrip" /\ procs[p].pc = "st_insert"
    /\ ~RideLocked(procs[p].ride, p)
    /\ trips' = Append(trips, [rideId |-> procs[p].ride, driverId |-> procs[p].seenDrv,
                               status |-> TripStatusStarted, startTime |-> now,
                               pauseDurationSecs |-> 0, updatedAt |-> now,
                               actualDistanceKm |-> 0, actualDurationMin |-> 0,
                               fare |-> <<>>])
    /\ SetProc(p, [procs[p] EXCEPT !.pc = "st_ride", !.trip = Len(trips) + 1])
    /\ UNCHANGED <<rides, offers, drivers, meta, geo, activeRide, now, budget, commits, issued, idemVars, auxVars>>

\* rideRepo.UpdateStatus(rideID, in_progress)
ST_SetRide(p) ==
    /\ procs[p].op = "StartTrip" /\ procs[p].pc = "st_ride"
    /\ ~RideLocked(procs[p].ride, p)
    /\ rides' = [rides EXCEPT ![procs[p].ride].status = RideStatusInProgress]
    /\ SetProc(p, Done(procs[p], "OK"))
    /\ UNCHANGED <<offers, trips, drivers, meta, geo, activeRide, now, budget, commits, issued, idemVars, auxVars>>

\* --------------------------------------------------------------- EndTrip
\* tripService.EndTrip(tripID, req)

\* The minutes EndTrip charges: int(time.Since(StartTime).Minutes()) minus
\* PauseDurationSecs / 60, at least 1
ActualDurationMins(startTime, pauseDurationSecs, t) ==
    LET actualDurationMins == (t - startTime) \div 60 - pauseDurationSecs \div 60
    IN  IF actualDurationMins < 1 THEN 1 ELSE actualDurationMins

\* tripRepo.GetByID, the transition check, rideRepo.GetByID, and the fare of
\* the ride's estimated distance (the request carries no odometer reading)
ET_Start(p, t) ==
    /\ CanStart(p, "EndTrip")
    /\ KnownTrip(t)
    /\ LET rec == [Idle EXCEPT !.op = "EndTrip", !.trip = t]
       IN  IF t \notin 1..Len(trips)
           THEN SetProc(p, Done(rec, "NOT_FOUND"))
           ELSE IF ~TripCanTransitionTo(trips[t].status, TripStatusCompleted)
           THEN SetProc(p, Done([rec EXCEPT !.seen = trips[t].status],
                                "INVALID_TRANSITION"))
           ELSE LET ride == rides[trips[t].rideId]
                    mins == ActualDurationMins(trips[t].startTime,
                                               trips[t].pauseDurationSecs, now)
                IN  SetProc(p, [rec EXCEPT
                                   !.pc = "et_trip", !.ride = trips[t].rideId,
                                   !.driver = trips[t].driverId,
                                   !.seen = trips[t].status,
                                   !.km = ride.estimatedDistanceKm,
                                   !.mins = mins,
                                   !.fare = CalculateActualFare(ride.vehicleType,
                                                ride.estimatedDistanceKm, mins,
                                                ride.surgeMultiplier)])
    /\ Called("EndTrip")
    /\ UNCHANGED <<rides, offers, trips, drivers, meta, geo, activeRide, now, commits, issued, idemVars, auxVars>>

\* tripRepo.EndTrip: UPDATE trips SET status = completed, fares WHERE id
ET_WriteTrip(p) ==
    /\ procs[p].op = "EndTrip" /\ procs[p].pc = "et_trip"
    /\ trips' = [trips EXCEPT ![procs[p].trip].status = TripStatusCompleted,
                              ![procs[p].trip].actualDistanceKm = procs[p].km,
                              ![procs[p].trip].actualDurationMin = procs[p].mins,
                              ![procs[p].trip].fare = procs[p].fare,
                              ![procs[p].trip].updatedAt = now]
    /\ SetProc(p, [procs[p] EXCEPT !.pc = "et_ride"])
    /\ UNCHANGED <<rides, offers, drivers, meta, geo, activeRide, now, budget, commits, issued, idemVars, auxVars>>

\* rideRepo.UpdateStatus(trip.RideID, completed)
ET_SetRide(p) ==
    /\ procs[p].op = "EndTrip" /\ procs[p].pc = "et_ride"
    /\ ~RideLocked(procs[p].ride, p)
    /\ rides' = [rides EXCEPT ![procs[p].ride].status = RideStatusCompleted]
    /\ SetProc(p, [procs[p] EXCEPT !.pc = "et_driver"])
    /\ UNCHANGED <<offers, trips, drivers, meta, geo, activeRide, now, budget, commits, issued, idemVars, auxVars>>

\* driverRepo.UpdateStatus(trip.DriverID, online) and IncrementTotalTrips
ET_SetDriver(p) ==
    /\ procs[p].op = "EndTrip" /\ procs[p].pc = "et_driver"
    /\ drivers' = [drivers EXCEPT ![procs[p].driver].status = DriverStatusOnline,
                                  ![procs[p].driver].totalTrips = @ + 1]
    /\ SetProc(p, [procs[p] EXCEPT !.pc = "et_cache"])
    /\ UNCHANGED <<rides, offers, trips, meta, geo, activeRide, now, budget, commits, issued, idemVars, auxVars>>

\* driverCache.ClearActiveRide(trip.DriverID)
ET_Cache(p) ==
    /\ procs[p].op = "EndTrip" /\ procs[p].pc = "et_cache"
    /\ activeRide' = [activeRide EXCEPT ![procs[p].driver] = NoRide]
    /\ SetProc(p, Done(procs[p], "OK"))
    /\ UNCHANGED <<rides, offers, trips, drivers, meta, geo, now, budget, commits, issued, idemVars, auxVars>>

\* ------------------------------------------------- PauseTrip, ResumeTrip
\* tripService.PauseTrip(tripID), tripService.ResumeTrip(tripID)

PT_Start(p, t) ==
    /\ CanStart(p, "PauseTrip")
    /\ KnownTrip(t)
    /\ LET rec == [Idle EXCEPT !.op = "PauseTrip", !.trip = t]
       IN  IF t \notin 1..Len(trips)
           THEN SetProc(p, Done(rec, "NOT_FOUND"))
           ELSE IF ~TripCanTransitionTo(trips[t].status, TripStatusPaused)
           THEN SetProc(p, Done([rec EXCEPT !.seen = trips[t].status],
                                "INVALID_TRANSITION"))
           ELSE SetProc(p, [rec EXCEPT !.pc = "pt_write", !.seen = trips[t].status])
    /\ Called("PauseTrip")
    /\ UNCHANGED <<rides, offers, trips, drivers, meta, geo, activeRide, now, commits, issued, idemVars, auxVars>>

\* tripRepo.UpdateStatus(tripID, paused): UPDATE trips SET status, updated_at
PT_Write(p) ==
    /\ procs[p].op = "PauseTrip" /\ procs[p].pc = "pt_write"
    /\ trips' = [trips EXCEPT ![procs[p].trip].status = TripStatusPaused,
                              ![procs[p].trip].updatedAt = now]
    /\ SetProc(p, Done(procs[p], "OK"))
    /\ UNCHANGED <<rides, offers, drivers, meta, geo, activeRide, now, budget, commits, issued, idemVars, auxVars>>

RT_Start(p, t) ==
    /\ CanStart(p, "ResumeTrip")
    /\ KnownTrip(t)
    /\ LET rec == [Idle EXCEPT !.op = "ResumeTrip", !.trip = t]
       IN  IF t \notin 1..Len(trips)
           THEN SetProc(p, Done(rec, "NOT_FOUND"))
           ELSE IF trips[t].status # TripStatusPaused
           THEN SetProc(p, Done([rec EXCEPT !.seen = trips[t].status], "BAD_REQUEST"))
           ELSE SetProc(p, [rec EXCEPT !.pc = "rt_write", !.seen = trips[t].status])
    /\ Called("ResumeTrip")
    /\ UNCHANGED <<rides, offers, trips, drivers, meta, geo, activeRide, now, commits, issued, idemVars, auxVars>>

\* tripRepo.UpdateStatus(tripID, started): UPDATE trips SET status, updated_at
RT_Write(p) ==
    /\ procs[p].op = "ResumeTrip" /\ procs[p].pc = "rt_write"
    /\ trips' = [trips EXCEPT ![procs[p].trip].status = TripStatusStarted,
                              ![procs[p].trip].updatedAt = now]
    /\ SetProc(p, Done(procs[p], "OK"))
    /\ UNCHANGED <<rides, offers, drivers, meta, geo, activeRide, now, budget, commits, issued, idemVars, auxVars>>

\* -------------------------------------------------------------- GoOnline
\* driverService.GoOnline(driverID)

\* driverRepo.UpdateStatus(driverID, online), whatever the status was
GO_Start(p, d) ==
    /\ CanStart(p, "GoOnline")
    /\ drivers' = [drivers EXCEPT ![d].status = DriverStatusOnline]
    /\ SetProc(p, [Idle EXCEPT !.op = "GoOnline", !.pc = "go_cache", !.driver = d,
                               !.seen = drivers[d].status])
    /\ Called("GoOnline")
    /\ UNCHANGED <<rides, offers, trips, meta, geo, activeRide, now, commits, issued, idemVars, auxVars>>

\* driverCache.SetDriverMeta(driverID, online, ...)
GO_Cache(p) ==
    /\ procs[p].op = "GoOnline" /\ procs[p].pc = "go_cache"
    /\ meta' = [meta EXCEPT ![procs[p].driver] = DriverStatusOnline]
    /\ SetProc(p, Done(procs[p], "OK"))
    /\ UNCHANGED <<rides, offers, trips, drivers, geo, activeRide, now, budget, commits, issued, idemVars, auxVars>>

\* ------------------------------------------------------------- GoOffline
\* driverService.GoOffline(driverID)

GF_Start(p, d) ==
    /\ CanStart(p, "GoOffline")
    /\ LET rec == [Idle EXCEPT !.op = "GoOffline", !.driver = d, !.seen = drivers[d].status]
       IN  IF GetActiveRideByDriverID(d) # {}
           THEN SetProc(p, Done(rec, "BAD_REQUEST"))
           ELSE SetProc(p, [rec EXCEPT !.pc = "gf_write"])
    /\ Called("GoOffline")
    /\ UNCHANGED <<rides, offers, trips, drivers, meta, geo, activeRide, now, commits, issued, idemVars, auxVars>>

\* driverRepo.UpdateStatus(driverID, offline)
GF_Write(p) ==
    /\ procs[p].op = "GoOffline" /\ procs[p].pc = "gf_write"
    /\ drivers' = [drivers EXCEPT ![procs[p].driver].status = DriverStatusOffline]
    /\ SetProc(p, [procs[p] EXCEPT !.pc = "gf_cache"])
    /\ UNCHANGED <<rides, offers, trips, meta, geo, activeRide, now, budget, commits, issued, idemVars, auxVars>>

\* driverCache.SetDriverMeta(driverID, offline, ...) and RemoveDriver
GF_Cache(p) ==
    /\ procs[p].op = "GoOffline" /\ procs[p].pc = "gf_cache"
    /\ meta' = [meta EXCEPT ![procs[p].driver] = DriverStatusOffline]
    /\ geo' = [geo EXCEPT ![procs[p].driver] = FALSE]
    /\ SetProc(p, Done(procs[p], "OK"))
    /\ UNCHANGED <<rides, offers, trips, drivers, activeRide, now, budget, commits, issued, idemVars, auxVars>>

\* -------------------------------------------------------- UpdateLocation
\* driverService.UpdateLocation(driverID, req); every reported position lies
\* within the matching radius of every pickup.

UL_Start(p, d) ==
    /\ CanStart(p, "UpdateLocation")
    /\ LET rec == [Idle EXCEPT !.op = "UpdateLocation", !.driver = d,
                               !.seen = drivers[d].status]
       IN  IF drivers[d].status = DriverStatusOffline
           THEN SetProc(p, Done(rec, "BAD_REQUEST"))
           ELSE SetProc(p, [rec EXCEPT !.pc = "ul_cache"])
    /\ Called("UpdateLocation")
    /\ UNCHANGED <<rides, offers, trips, drivers, meta, geo, activeRide, now, commits, issued, idemVars, auxVars>>

\* driverCache.UpdateLocation: GEOADD
UL_Cache(p) ==
    /\ procs[p].op = "UpdateLocation" /\ procs[p].pc = "ul_cache"
    /\ geo' = [geo EXCEPT ![procs[p].driver] = TRUE]
    /\ SetProc(p, [procs[p] EXCEPT !.pc = "ul_write"])
    /\ UNCHANGED <<rides, offers, trips, drivers, meta, activeRide, now, budget, commits, issued, idemVars, auxVars>>

\* driverRepo.UpdateLocation: UPDATE drivers SET current_lat, current_lng
UL_Write(p) ==
    /\ procs[p].op = "UpdateLocation" /\ procs[p].pc = "ul_write"
    /\ drivers' = [drivers EXCEPT ![procs[p].driver].located = TRUE]
    /\ SetProc(p, Done(procs[p], "OK"))
    /\ UNCHANGED <<rides, offers, trips, meta, geo, activeRide, now, budget, commits, issued, idemVars, auxVars>>

\* ------------------------------------------------------ return and clock

\* The handler writes the response.  RideHandler.CreateRide has by then
\* started FindAndOfferDrivers for the ride it answers with.
Return(p) ==
    /\ procs[p].pc = "done"
    /\ IF procs[p].op = "CreateRide" /\ procs[p].res = "OK"
       THEN /\ SetProc(p, [Idle EXCEPT !.op = "Match", !.pc = "m_select",
                                       !.ride = procs[p].ride,
                                       !.replay = procs[p].replay])
            /\ issued' = [issued EXCEPT !.rides = @ \cup {procs[p].ride}]
       ELSE IF procs[p].op = "StartTrip" /\ procs[p].res = "OK"
       THEN /\ SetProc(p, Idle)
            /\ issued' = [issued EXCEPT !.trips = @ \cup {procs[p].trip}]
       ELSE /\ SetProc(p, Idle)
            /\ UNCHANGED issued
    /\ UNCHANGED <<rides, offers, trips, drivers, meta, geo, activeRide, now, budget, commits, idemVars, auxVars>>

\* The instants at which an offer's expiry can change what a call observes.
ExpiryInstants ==
    UNION {{offers[o].expiresAt, offers[o].expiresAt + 1} :
             o \in {x \in OfferIds : offers[x].status # OfferAbsent}}

\* Time passes up to the next such instant.
Tick ==
    /\ \E t \in ExpiryInstants :
          /\ t > now
          /\ t <= MaxTime
          /\ \A t2 \in ExpiryInstants : t2 > now => t <= t2
          /\ now' = t
    /\ UNCHANGED <<storeVars, idemVars, auxVars>>

\* ------------------------------------------------- middleware steps
SetReq(i, rec) == reqs' = [reqs EXCEPT ![i] = rec]

Respond(rec, response) == [rec EXCEPT !.pc = "done", !.resp = response]

\* A request arrives; getCachedResponse(cacheKey): on a hit the body hash is
\* compared and the stored response replayed, on a miss the request goes on
\* to the lock.
MW_Begin(i, k, b) ==
    /\ reqs[i].pc = "new"
    /\ \A j \in Reqs : j < i => reqs[j].pc # "new"
    /\ LET rec == [reqs[i] EXCEPT !.key = k, !.body = b]
       IN  IF idemCache[k] # NoCached
           THEN IF idemCache[k].bodyHash # hashBody(b)
                THEN SetReq(i, Respond(rec, IdempotencyConflict))
                ELSE SetReq(i, Respond(rec, [status |-> idemCache[k].statusCode,
                                             body |-> idemCache[k].body]))
           ELSE SetReq(i, [rec EXCEPT !.pc = "lock"])
    /\ UNCHANGED <<auxVars, storeVars, now, idemCache, idemLock, served>>

\* redis.SetNX(lockKey, "1", 30 s)
MW_SetNX(i) ==
    /\ reqs[i].pc = "lock"
    /\ IF LockHeld(reqs[i].key)
       THEN /\ SetReq(i, Respond(reqs[i], RequestInProgress))
            /\ UNCHANGED idemLock
       ELSE /\ idemLock' = [idemLock EXCEPT ![reqs[i].key] =
                               [held |-> TRUE, expires |-> now + LockTTL, owner |-> i]]
            /\ SetReq(i, [reqs[i] EXCEPT !.pc = "serve"])
    /\ UNCHANGED <<auxVars, storeVars, now, idemCache, served>>

\* The client goes away while the handler runs: r.Context() is cancelled.
MW_Cancel(i) ==
    /\ reqs[i].pc = "serve"
    /\ ~reqs[i].cancelled
    /\ SetReq(i, [reqs[i] EXCEPT !.cancelled = TRUE])
    /\ UNCHANGED <<auxVars, storeVars, now, idemCache, idemLock, served>>

\* next.ServeHTTP(rw, r) returns with the handler's response captured.
MW_Serve(i, response) ==
    /\ reqs[i].pc = "serve"
    /\ SetReq(i, [reqs[i] EXCEPT !.pc = "store", !.resp = response])
    /\ served' = [served EXCEPT ![reqs[i].key] =
                     IF IsSuccess(response.status) THEN @ + 1 ELSE @]
    /\ UNCHANGED <<auxVars, storeVars, now, idemCache, idemLock>>

\* redis.Set(ctx, cacheKey, data, idempotencyTTL) for a 2xx response; with a
\* cancelled context the write may not reach the cache.
MW_Store(i) ==
    /\ reqs[i].pc = "store"
    /\ \E written \in IF reqs[i].cancelled THEN BOOLEAN ELSE {TRUE} :
          IF IsSuccess(reqs[i].resp.status) /\ written
          THEN idemCache' = [idemCache EXCEPT ![reqs[i].key] =
                                [statusCode |-> reqs[i].resp.status,
                                 body |-> reqs[i].resp.body,
                                 bodyHash |-> hashBody(reqs[i].body)]]
          ELSE UNCHANGED idemCache
    /\ SetReq(i, [reqs[i] EXCEPT !.pc = "unlock"])
    /\ UNCHANGED <<auxVars, storeVars, now, idemLock, served>>

\* defer redis.Del(ctx, lockKey): removes the key whoever set it; with a
\* cancelled context the delete may not reach the cache.
MW_Del(i) ==
    /\ reqs[i].pc = "unlock"
    /\ \E deleted \in IF reqs[i].cancelled THEN BOOLEAN ELSE {TRUE} :
          IF deleted
          THEN idemLock' = [idemLock EXCEPT ![reqs[i].key] = NoLock]
          ELSE UNCHANGED idemLock
    /\ SetReq(i, [reqs[i] EXCEPT !.pc = "done"])
    /\ UNCHANGED <<auxVars, storeVars, now, idemCache, served>>

\* Time passes until the time to live of a lock key runs out and the cache
\* drops the key.
IdemTick ==
    /\ \E k \in IdemKeys :
          /\ idemLock[k].held
          /\ \A k2 \in IdemKeys : idemLock[k2].held => idemLock[k].expires <= idemLock[k2].expires
          /\ now' = idemLock[k].expires
          /\ idemLock' = [k2 \in IdemKeys |->
                             IF idemLock[k2].held /\ idemLock[k2].expires <= idemLock[k].expires
                             THEN NoLock ELSE idemLock[k2]]
    /\ UNCHANGED <<auxVars, storeVars, idemCache, reqs, served>>

\* A minute passes while a trip is under way.
Minute ==
    /\ now + 60 <= MaxTripMins * 60
    /\ now' = now + 60
    /\ UNCHANGED <<storeVars, idemVars, auxVars>>

\* --------------------------------------------------- pricing service calls
\* A caller asks the pricing service for a fare.

PS_Estimate(vehicleType, distanceKm, durationMins, surgeMultiplier) ==
    /\ quote' = [fn |-> "CalculateEstimatedFare", vehicleType |-> vehicleType,
                 distanceKm |-> distanceKm, durationMins |-> durationMins,
                 surgeMultiplier |-> surgeMultiplier,
                 out |-> CalculateEstimatedFare(vehicleType, distanceKm, durationMins,
                                                surgeMultiplier)]
    /\ UNCHANGED <<storeVars, now, idemVars, serviceVars>>

PS_Actual(vehicleType, distanceKm, durationMins, surgeMultiplier) ==
    /\ quote' = [fn |-> "CalculateActualFare", vehicleType |-> vehicleType,
                 distanceKm |-> distanceKm, durationMins |-> durationMins,
                 surgeMultiplier |-> surgeMultiplier,
                 out |-> CalculateActualFare(vehicleType, distanceKm, durationMins,
                                             surgeMultiplier)]
    /\ UNCHANGED <<storeVars, now, idemVars, serviceVars>>

PS_Surge(demandCount, supplyCount) ==
    /\ quote' = [fn |-> "CalculateSurge", demandCount |-> demandCount,
                 supplyCount |-> supplyCount,
                 out |-> CalculateSurge(demandCount, supplyCount)]
    /\ UNCHANGED <<storeVars, now, idemVars, serviceVars>>

\* ------------------------------------------------------- ProcessPayment
\* SELECT * FROM payments WHERE idempotency_key = $1
PaymentByIdempotencyKey(k) == {i \in 1..Len(payments) : payments[i].key = k}

\* SELECT * FROM payments WHERE trip_id = $1 ORDER BY created_at DESC LIMIT 1
PaymentByTripID(t) ==
    LET ofTrip == {i \in 1..Len(payments) : payments[i].tripId = t}
    IN  IF ofTrip = {} THEN 0 ELSE CHOOSE i \in ofTrip : \A j \in ofTrip : j <= i

\* The request arrives; with an idempotency key the first statement is the
\* lookup by key, without one the trip lookup.
PP_Start(p, t, k) ==
    /\ CanStart(p, "ProcessPayment")
    /\ KnownTrip(t)
    /\ SetProc(p, [Idle EXCEPT !.op = "ProcessPayment",
                                !.pc = IF k # NoKey THEN "pp_key" ELSE "pp_trip",
                                !.trip = t, !.key = k])
    /\ Called("ProcessPayment")
    /\ UNCHANGED <<rides, offers, trips, drivers, meta, geo, activeRide, now, commits, issued, idemVars, auxVars>>

\* paymentRepo.GetByIdempotencyKey: an existing payment is the response
PP_CheckKey(p) ==
    /\ procs[p].op = "ProcessPayment" /\ procs[p].pc = "pp_key"
    /\ IF PaymentByIdempotencyKey(procs[p].key) # {}
       THEN SetProc(p, Done([procs[p] EXCEPT
                               !.payment = CHOOSE i \in PaymentByIdempotencyKey(procs[p].key) : TRUE],
                            "OK"))
       ELSE SetProc(p, [procs[p] EXCEPT !.pc = "pp_trip"])
    /\ UNCHANGED <<rides, offers, trips, drivers, meta, geo, activeRide, now, budget, commits, issued, idemVars, auxVars>>

\* tripRepo.GetByID: the trip must exist, be completed and carry a total fare
PP_GetTrip(p) ==
    /\ procs[p].op = "ProcessPayment" /\ procs[p].pc = "pp_trip"
    /\ LET t == procs[p].trip
       IN  IF t \notin 1..Len(trips)
           THEN SetProc(p, Done(procs[p], "NOT_FOUND"))
           ELSE IF trips[t].status # TripStatusCompleted \/ trips[t].fare = <<>>
           THEN SetProc(p, Done([procs[p] EXCEPT !.seen = trips[t].status], "BAD_REQUEST"))
           ELSE SetProc(p, [procs[p] EXCEPT !.pc = "pp_existing",
                                            !.seen = trips[t].status,
                                            !.fare = trips[t].fare])
    /\ UNCHANGED <<rides, offers, trips, drivers, meta, geo, activeRide, now, budget, commits, issued, idemVars, auxVars>>

\* paymentRepo.GetByTripID: a completed payment of the trip is the response
PP_GetByTripID(p) ==
    /\ procs[p].op = "ProcessPayment" /\ procs[p].pc = "pp_existing"
    /\ LET existing == PaymentByTripID(procs[p].trip)
       IN  IF existing # 0 /\ payments[existing].status = PaymentStatusCompleted
           THEN SetProc(p, Done([procs[p] EXCEPT !.payment = existing], "OK"))
           ELSE SetProc(p, [procs[p] EXCEPT !.pc = "pp_create"])
    /\ UNCHANGED <<rides, offers, trips, drivers, meta, geo, activeRide, now, budget, commits, issued, idemVars, auxVars>>

\* paymentRepo.Create: INSERT INTO payments with status pending; the column
\* idempotency_key is UNIQUE and the raw error of a violation is returned.
PP_Create(p) ==
    /\ procs[p].op = "ProcessPayment" /\ procs[p].pc = "pp_create"
    /\ IF procs[p].key # NoKey /\ PaymentByIdempotencyKey(procs[p].key) # {}
       THEN /\ SetProc(p, Done(procs[p], "INTERNAL"))
            /\ UNCHANGED payments
       ELSE /\ payments' = Append(payments,
                                  [tripId |-> procs[p].trip, key |-> procs[p].key,
                                   amount |-> procs[p].fare.Total,
                                   status |-> PaymentStatusPending])
            /\ SetProc(p, [procs[p] EXCEPT !.pc = "pp_update",
                                            !.payment = Len(payments) + 1])
    /\ UNCHANGED <<rides, offers, trips, drivers, meta, geo, activeRide, now, budget, commits, issued, idemVars, fareVars, rlVars, sseVars>>

\* The mock processors always succeed; paymentRepo.UpdateStatus(completed)
PP_UpdateStatus(p) ==
    /\ procs[p].op = "ProcessPayment" /\ procs[p].pc = "pp_update"
    /\ payments' = [payments EXCEPT ![procs[p].payment].status = PaymentStatusCompleted]
    /\ SetProc(p, Done(procs[p], "OK"))
    /\ UNCHANGED <<rides, offers, trips, drivers, meta, geo, activeRide, now, budget, commits, issued, idemVars, fareVars, rlVars, sseVars>>

ProcessPaymentSteps ==
    \/ \E p \in Procs, t \in 1..MaxTrips, k \in Keys : PP_Start(p, t, k)
    \/ \E p \in Procs : PP_CheckKey(p)
    \/ \E p \in Procs : PP_GetTrip(p)
    \/ \E p \in Procs : PP_GetByTripID(p)
    \/ \E p \in Procs : PP_Create(p)
    \/ \E p \in Procs : PP_UpdateStatus(p)

\* --------------------------------------------------------- rate limiter
\* The key exists in the cache: it was created and its expiry is ahead.
RLLive(k) == limiter[k].count > 0 /\ now < limiter[k].expiresAt

\* RateLimiter.Handler and isAllowed: INCR key and EXPIRE key window are sent
\* in one pipeline; INCR creates an absent key at 1, and EXPIRE sets the
\* expiry of the key to one window from now whether or not it has one.  The
\* request goes on to the next handler when the count is within the limit.
RL_Request(k) ==
    /\ LET count == IF RLLive(k) THEN limiter[k].count + 1 ELSE 1
       IN  /\ count <= MaxCount
           /\ limiter' = [limiter EXCEPT
                            ![k] = [count |-> count,
                                    expiresAt |-> now + RLWindow,
                                    firstAt |-> IF RLLive(k) THEN limiter[k].firstAt
                                                ELSE now]]
           /\ answer' = [key |-> k, count |-> count, allowed |-> count <= RLRequests]
    /\ UNCHANGED <<storeVars, now, idemVars, fareVars, payVars, sseVars>>

\* A second passes; the cache drops the keys whose expiry is reached.
RL_Tick ==
    /\ now < MaxRLTime
    /\ now' = now + 1
    /\ limiter' = [k \in RLKeys |->
                     IF limiter[k].count > 0 /\ now' < limiter[k].expiresAt
                     THEN limiter[k]
                     ELSE [count |-> 0, expiresAt |-> 0, firstAt |-> 0]]
    /\ UNCHANGED <<storeVars, idemVars, fareVars, payVars, answer, sseVars>>

\* ------------------------------------------------------------- tracking
\* A registry without its lock: writers never wait for a broadcast.
NeverLocked == FALSE

\* The registry h.clients maps a ride id to its set of channels; a ride with
\* no entry is outside the domain.  h.mu is held for reading by the listener
\* from BL_Begin to BL_End and for writing inside registerClient and
\* unregisterClient, each of which is one step.
ReadLocked == dispatch.pc = "sending"

\* A send that always adds the message to the channel.
SendAlways(buf, data) == Append(buf, data)

\* select { case ch <- data: default: } on a channel of capacity ChanCap
TrySend(buf, data) == IF Len(buf) < ChanCap THEN Append(buf, data) ELSE buf

\* delete(clients, ch), and delete(h.clients, rideID) when none is left
Unregistered(r, c) ==
    IF r \notin DOMAIN clients THEN clients
    ELSE IF clients[r] \ {c} = {}
    THEN [x \in DOMAIN clients \ {r} |-> clients[x]]
    ELSE [clients EXCEPT ![r] = @ \ {c}]

\* TrackRide: rideRepo.GetByID; the ride must exist and have a driver
TR_Start(c, r) ==
    /\ chans[c].state = "none"
    /\ \A b \in Chans : b < c => chans[b].state # "none"
    /\ IF RideExists(r) /\ rides[r].driverId # NoDriver
       THEN chans' = [chans EXCEPT ![c].state = "made", ![c].ride = r]
       ELSE chans' = [chans EXCEPT ![c].state = "refused", ![c].ride = r]
    /\ UNCHANGED <<storeVars, now, idemVars, fareVars, payVars, rlVars, clients, topic, dispatch>>

\* registerClient under the write lock
TR_Register(c) ==
    /\ chans[c].state = "made"
    /\ ~ReadLocked
    /\ LET r == chans[c].ride
       IN  clients' = IF r \in DOMAIN clients
                      THEN [clients EXCEPT ![r] = @ \cup {c}]
                      ELSE [x \in DOMAIN clients \cup {r} |->
                              IF x = r THEN {c} ELSE clients[x]]
    /\ chans' = [chans EXCEPT ![c].state = "open"]
    /\ UNCHANGED <<storeVars, now, idemVars, fareVars, payVars, rlVars, topic, dispatch>>

\* The stream's select takes a message from its channel and writes it out.
TR_Receive(c) ==
    /\ chans[c].state = "open"
    /\ chans[c].buf # <<>>
    /\ chans' = [chans EXCEPT ![c].buf = Tail(@), ![c].last = Head(chans[c].buf).seq]
    /\ UNCHANGED <<storeVars, now, idemVars, fareVars, payVars, rlVars, clients, topic, dispatch>>

\* The client disconnects: the select sees ctx.Done and TrackRide returns.
TR_Done(c) ==
    /\ chans[c].state = "open"
    /\ chans' = [chans EXCEPT ![c].state = "leaving"]
    /\ UNCHANGED <<storeVars, now, idemVars, fareVars, payVars, rlVars, clients, topic, dispatch>>

\* The deferred unregisterClient under the write lock: the channel leaves the
\* registry and is closed.
TR_Unregister(c) ==
    /\ chans[c].state = "leaving"
    /\ ~ReadLocked
    /\ clients' = Unregistered(chans[c].ride, c)
    /\ chans' = [chans EXCEPT ![c].state = "closed"]
    /\ UNCHANGED <<storeVars, now, idemVars, fareVars, payVars, rlVars, topic, dispatch>>

\* PublishLocationUpdate: PUBLISH driver:location:updates {ride, driver}
PublishLocationUpdate(r, d) ==
    /\ dispatch.published < MaxMsgs
    /\ Len(topic) < MaxTopic
    /\ topic' = Append(topic, [rideId |-> r, driverId |-> d,
                               seq |-> dispatch.published + 1])
    /\ dispatch' = [dispatch EXCEPT !.published = @ + 1]
    /\ UNCHANGED <<storeVars, now, idemVars, fareVars, payVars, rlVars, clients, chans>>

\* startPubSubListener takes the next message; BroadcastLocation takes the
\* read lock and starts to range over the ride's channels.
BL_Begin ==
    /\ dispatch.pc = "idle"
    /\ topic # <<>>
    /\ topic' = Tail(topic)
    /\ dispatch' = [dispatch EXCEPT
                      !.pc = "sending", !.msg = Head(topic),
                      !.todo = IF Head(topic).rideId \in DOMAIN clients
                               THEN clients[Head(topic).rideId] ELSE {}]
    /\ UNCHANGED <<storeVars, now, idemVars, fareVars, payVars, rlVars, clients, chans>>

\* One iteration of the range loop, in map order: a non-blocking send.  A
\* send on a closed channel panics.
BL_Send(c) ==
    /\ dispatch.pc = "sending"
    /\ c \in dispatch.todo
    /\ IF chans[c].state = "closed"
       THEN /\ dispatch' = [dispatch EXCEPT !.pc = "panic", !.panicked = TRUE]
            /\ UNCHANGED chans
       ELSE /\ chans' = [chans EXCEPT ![c].buf = TrySend(@, dispatch.msg)]
            /\ dispatch' = [dispatch EXCEPT !.todo = @ \ {c}]
    /\ UNCHANGED <<storeVars, now, idemVars, fareVars, payVars, rlVars, clients, topic>>

\* The loop is over: the read lock is released.
BL_End ==
    /\ dispatch.pc = "sending"
    /\ dispatch.todo = {}
    /\ dispatch' = [dispatch EXCEPT !.pc = "idle", !.msg = <<>>]
    /\ UNCHANGED <<storeVars, now, idemVars, fareVars, payVars, rlVars, clients, chans, topic>>

TrackRideSteps ==
    \/ \E c \in Chans, r \in RideIds : TR_Start(c, r)
    \/ \E c \in Chans : TR_Register(c)
    \/ \E c \in Chans : TR_Receive(c)
    \/ \E c \in Chans : TR_Done(c)
    \/ \E c \in Chans : TR_Unregister(c)

ListenerSteps ==
    \/ BL_Begin
    \/ \E c \in Chans : BL_Send(c)
    \/ BL_End

\* ------------------------------------------------------- specifications
\* The requests the environment sends: any at all, or only those of a client
\* that names its own offer for the ride the offer belongs to.
AllAcceptRequests == Drivers \X RideIds \X OfferIds

OwnAcceptRequests == {<<d, r, <<r, d>>>> : d \in Drivers, r \in RideIds}

AllDeclineRequests == Drivers \X OfferIds

OwnDeclineRequests == {<<o[2], o>> : o \in OfferIds}

CreateRideSteps(keys) ==
    \/ \E p \in Procs, u \in Users, k \in keys : CR_Start(p, u, k)
    \/ \E p \in Procs : CR_CheckActive(p)
    \/ \E p \in Procs : CR_Insert(p)
    \/ \E p \in Procs : CR_SetMatching(p)

MatchSteps ==
    \/ \E p \in Procs : M_Select(p)
    \/ \E p \in Procs : M_Cancel(p)
    \/ \E p \in Procs, d \in Drivers : M_Offer(p, d)
    \/ \E p \in Procs : M_CtxCancelled(p)

AcceptRideSteps(requests) ==
    \/ \E p \in Procs, q \in requests : AR_Start(p, q[1], q[2], q[3])
    \/ \E p \in Procs : AR_LockRide(p)
    \/ \E p \in Procs : AR_Commit(p)
    \/ \E p \in Procs : AR_SetActiveRide(p)
    \/ \E p \in Procs : AR_Deadlock(p)

DeclineRideSteps(requests) ==
    \/ \E p \in Procs, q \in requests : DR_Start(p, q[1], q[2])
    \/ \E p \in Procs : DR_Write(p)

CancelRideSteps ==
    \/ \E p \in Procs, r \in RideIds, by \in CancelledByInputs : CA_Start(p, r, by)
    \/ \E p \in Procs : CA_Write(p)
    \/ \E p \in Procs : CA_Driver(p)

UpdateRideStatusSteps ==
    \/ \E p \in Procs, r \in RideIds, to \in RideStatuses : URS_Start(p, r, to)
    \/ \E p \in Procs : URS_Write(p)

StartTripSteps ==
    \/ \E p \in Procs, r \in RideIds : ST_Start(p, r)
    \/ \E p \in Procs : ST_CheckTrip(p)
    \/ \E p \in Procs : ST_Insert(p)
    \/ \E p \in Procs : ST_SetRide(p)

PauseTripSteps ==
    \/ \E p \in Procs, t \in 1..MaxTrips : PT_Start(p, t)
    \/ \E p \in Procs : PT_Write(p)

ResumeTripSteps ==
    \/ \E p \in Procs, t \in 1..MaxTrips : RT_Start(p, t)
    \/ \E p \in Procs : RT_Write(p)

EndTripSteps ==
    \/ \E p \in Procs, t \in 1..MaxTrips : ET_Start(p, t)
    \/ \E p \in Procs : ET_WriteTrip(p)
    \/ \E p \in Procs : ET_SetRide(p)
    \/ \E p \in Procs : ET_SetDriver(p)
    \/ \E p \in Procs : ET_Cache(p)

GoOnlineSteps ==
    \/ \E p \in Procs, d \in Drivers : GO_Start(p, d)
    \/ \E p \in Procs : GO_Cache(p)

GoOfflineSteps ==
    \/ \E p \in Procs, d \in Drivers : GF_Start(p, d)
    \/ \E p \in Procs : GF_Write(p)
    \/ \E p \in Procs : GF_Cache(p)

UpdateLocationSteps ==
    \/ \E p \in Procs, d \in Drivers : UL_Start(p, d)
    \/ \E p \in Procs : UL_Cache(p)
    \/ \E p \in Procs : UL_Write(p)

ReturnStep == \E p \in Procs : Return(p)

Next ==
    \/ CreateRideSteps(Keys)
    \/ MatchSteps
    \/ AcceptRideSteps(AllAcceptRequests)
    \/ DeclineRideSteps(AllDeclineRequests)
    \/ CancelRideSteps
    \/ UpdateRideStatusSteps
    \/ StartTripSteps
    \/ PauseTripSteps
    \/ ResumeTripSteps
    \/ EndTripSteps
    \/ GoOnlineSteps
    \/ GoOfflineSteps
    \/ UpdateLocationSteps
    \/ ProcessPaymentSteps
    \/ ReturnStep
    \/ Tick

Spec == Init /\ [][Next]_vars

\* Ride requests without idempotency key, matching, and the drivers' answers
\* to their own offers while the offers are fresh.
NextDispatch ==
    \/ CreateRideSteps({NoKey})
    \/ MatchSteps
    \/ AcceptRideSteps(OwnAcceptRequests)
    \/ DeclineRideSteps(OwnDeclineRequests)
    \/ CancelRideSteps
    \/ ReturnStep

SpecDispatch == Init /\ [][NextDispatch]_vars

\* One ride request; AcceptRide may be called twice, everything else once.
InitOneRide ==
    /\ InitStore
    /\ budget = [op \in OpNames |-> IF op = "AcceptRide" THEN MaxAccept ELSE MaxOther]

\* Any AcceptRide request at any time of an offer's life, next to the other
\* answers to the ride's offers and the ride's cancellation.
NextAccept ==
    \/ CreateRideSteps({NoKey})
    \/ MatchSteps
    \/ AcceptRideSteps(AllAcceptRequests)
    \/ DeclineRideSteps(OwnDeclineRequests)
    \/ CancelRideSteps
    \/ ReturnStep
    \/ Tick

SpecAccept == InitOneRide /\ [][NextAccept]_vars

\* Every operation that writes a ride's status.
NextRideStatus ==
    \/ CreateRideSteps({NoKey})
    \/ MatchSteps
    \/ AcceptRideSteps(OwnAcceptRequests)
    \/ CancelRideSteps
    \/ UpdateRideStatusSteps
    \/ StartTripSteps
    \/ EndTripSteps
    \/ ReturnStep

SpecRideStatus == InitOneRide /\ [][NextRideStatus]_vars

\* The operations that write a driver's status while a ride is dispatched.
NextPresence ==
    \/ CreateRideSteps({NoKey})
    \/ MatchSteps
    \/ AcceptRideSteps(OwnAcceptRequests)
    \/ CancelRideSteps
    \/ GoOnlineSteps
    \/ GoOfflineSteps
    \/ ReturnStep

SpecPresence == InitOneRide /\ [][NextPresence]_vars

\* Keyed unsafe requests through the idempotency middleware.
InitIdempotency ==
    /\ InitStore
    /\ \A d \in Drivers : drivers[d].status = DriverStatusOffline
    /\ budget = [op \in OpNames |-> 0]

NextIdempotency ==
    \/ \E i \in Reqs, k \in IdemKeys, b \in Bodies : MW_Begin(i, k, b)
    \/ \E i \in Reqs : MW_SetNX(i)
    \/ \E i \in Reqs : MW_Cancel(i)
    \/ \E i \in Reqs, response \in HandlerResponses : MW_Serve(i, response)
    \/ \E i \in Reqs : MW_Store(i)
    \/ \E i \in Reqs : MW_Del(i)
    \/ IdemTick

SpecIdempotency == InitIdempotency /\ [][NextIdempotency]_vars

\* Ride requests whose status update after the insert can fail, and what
\* follows for the ride.
NextCreate ==
    \/ CreateRideSteps({NoKey})
    \/ \E p \in Procs : CR_SetMatchingFails(p)
    \/ MatchSteps
    \/ AcceptRideSteps(OwnAcceptRequests)
    \/ CancelRideSteps
    \/ ReturnStep

SpecCreate == InitOneRide /\ [][NextCreate]_vars

\* Ride requests that carry an idempotency key, repeated, while drivers
\* answer their offers and go offline.
NextReplay ==
    \/ CreateRideSteps(IdemKeys)
    \/ MatchSteps
    \/ AcceptRideSteps(OwnAcceptRequests)
    \/ GoOfflineSteps
    \/ ReturnStep

SpecReplay == Init /\ [][NextReplay]_vars

\* Matching over a fleet of drivers with different distances and ratings;
\* a repeated ride request starts a second run for the same ride.
InitMatching ==
    /\ InitFleet(1..MaxFleet, Profiles)
    /\ budget = [op \in OpNames |-> MaxCallsOf(op)]

NextMatching ==
    \/ CreateRideSteps(IdemKeys)
    \/ MatchSteps
    \/ ReturnStep

SpecMatching == InitMatching /\ [][NextMatching]_vars

\* The trip of one ride.  The ride of user 1 was created while driver 1 was
\* the only driver online, offered to driver 1 and accepted, and driver 1 has
\* arrived at the pickup point.
InitTripStore ==
    /\ drivers = [d \in 1..NumDrivers |->
                    [status |-> IF d = 1 THEN DriverStatusBusy ELSE DriverStatusOffline,
                     totalTrips |-> 0, located |-> d = 1, dist |-> 0,
                     rating |-> MaxRating]]
    /\ meta = [d \in 1..NumDrivers |-> IF d = 1 THEN DriverStatusOnline ELSE "absent"]
    /\ geo = [d \in 1..NumDrivers |-> d = 1]
    /\ rides = <<[userId |-> 1, driverId |-> 1, status |-> RideStatusDriverArrived,
                  key |-> NoKey, cancelledBy |-> "", vehicleType |-> VehicleTypeSedan,
                  estimatedDistanceKm |-> RideKm * 1000,
                  estimatedFare |->
                      CalculateEstimatedFare(VehicleTypeSedan, RideKm * 1000,
                                             EstimateDuration(RideKm * 1000),
                                             CalculateSurge(10, 1)).Total,
                  surgeMultiplier |-> 10]>>
    /\ offers = [o \in OfferIds |->
                   IF o = <<1, 1>>
                   THEN [status |-> OfferStatusAccepted, expiresAt |-> OfferTimeout,
                         rows |-> 1]
                   ELSE [status |-> OfferAbsent, expiresAt |-> 0, rows |-> 0]]
    /\ trips = <<>>
    /\ activeRide = [d \in 1..NumDrivers |-> IF d = 1 THEN 1 ELSE NoRide]
    /\ now = 0
    /\ procs = [p \in Procs |-> Idle]
    /\ commits = [r \in RideIds |-> IF r = 1 THEN 1 ELSE 0]
    /\ issued = [rides |-> {1}, trips |-> {}]
    /\ IdemInit
    /\ quote = NoQuote
    /\ ServiceInit

\* StartTrip may be called twice, EndTrip and CancelRide once.
InitTrip ==
    /\ InitTripStore
    /\ budget = [op \in OpNames |->
                   CASE op = "StartTrip" -> MaxStart
                     [] op \in {"EndTrip", "CancelRide"} -> MaxOther
                     [] OTHER -> 0]

NextTrip ==
    \/ StartTripSteps
    \/ EndTripSteps
    \/ CancelRideSteps
    \/ ReturnStep

SpecTrip == InitTrip /\ [][NextTrip]_vars

\* The trip on the clock: it is started, may be paused and resumed once, and
\* EndTrip may be called twice, while the minutes pass.
InitTripClock ==
    /\ InitTripStore
    /\ budget = [op \in OpNames |->
                   CASE op = "EndTrip" -> MaxEnd
                     [] op \in {"StartTrip", "PauseTrip", "ResumeTrip"} -> MaxOther
                     [] OTHER -> 0]

NextTripClock ==
    \/ StartTripSteps
    \/ PauseTripSteps
    \/ ResumeTripSteps
    \/ EndTripSteps
    \/ ReturnStep
    \/ Minute

SpecTripClock == InitTripClock /\ [][NextTripClock]_vars

\* The trip is started once and EndTrip may be called twice; nothing else
\* touches the trip.
InitEndTrip ==
    /\ InitTripStore
    /\ budget = [op \in OpNames |->
                   CASE op = "EndTrip" -> MaxEnd
                     [] op = "StartTrip" -> MaxOther
                     [] OTHER -> 0]

NextEndTrip ==
    \/ StartTripSteps
    \/ EndTripSteps
    \/ ReturnStep

SpecEndTrip == InitEndTrip /\ [][NextEndTrip]_vars

\* The trip is started and ended once, and payment requests for it arrive at
\* any time, with or without an idempotency key.
InitPayment ==
    /\ InitTripStore
    /\ budget = [op \in OpNames |->
                   CASE op = "ProcessPayment" -> MaxPay
                     [] op \in {"StartTrip", "EndTrip"} -> MaxOther
                     [] OTHER -> 0]

NextPayment ==
    \/ StartTripSteps
    \/ EndTripSteps
    \/ ProcessPaymentSteps
    \/ ReturnStep

SpecPayment == InitPayment /\ [][NextPayment]_vars

\* The pricing service alone, called with any vehicle class (one of them
\* unknown to fareConfigs), distance, duration and surge of the input sets.
VehicleTypeInputs ==
    {VehicleTypeAuto, VehicleTypeMini, VehicleTypeSedan, VehicleTypeSUV, "bike"}

DistanceInputs == {0, 1000, 2013, 5000, MaxKm * 1000}

DurationInputs == {1, 2, 12, MaxMins}

SurgeInputs ==
    {CalculateSurge(demand, supply) : demand \in 0..MaxDemand, supply \in 0..MaxSupply}

InitPricing ==
    /\ InitStore
    /\ \A d \in Drivers : drivers[d].status = DriverStatusOffline
    /\ budget = [op \in OpNames |-> 0]

NextPricing ==
    \/ \E c \in VehicleTypeInputs, km \in DistanceInputs, m \in DurationInputs,
          s \in SurgeInputs : PS_Estimate(c, km, m, s)
    \/ \E c \in VehicleTypeInputs, km \in DistanceInputs, m \in DurationInputs,
          s \in SurgeInputs : PS_Actual(c, km, m, s)

SpecPricing == InitPricing /\ [][NextPricing]_vars

\* The surge function alone, called with any demand and supply count up to
\* the bounds.
NextSurge ==
    \E demand \in 0..MaxDemand, supply \in 0..MaxSupply : PS_Surge(demand, supply)

SpecSurge == InitPricing /\ [][NextSurge]_vars

\* Tracking streams of the assigned ride, location updates published on the
\* topic for either ride id, and the listener.
InitTracking ==
    /\ InitTripStore
    /\ budget = [op \in OpNames |-> 0]

NextTracking ==
    \/ TrackRideSteps
    \/ \E r \in RideIds, d \in Drivers : PublishLocationUpdate(r, d)
    \/ ListenerSteps

SpecTracking == InitTracking /\ [][NextTracking]_vars

\* The listener goroutine is scheduled whenever it can take a step; nothing
\* is assumed of the streams and the publishers.
SpecTrackingFair == SpecTracking /\ WF_vars(ListenerSteps)

\* Dispatch while time passes.  Ride 1 of user 1 has been offered to driver 1
\* and accepted; driver 2 is online or has gone offline since.  Further ride
\* requests arrive, their
\* offers are answered or expire, and rides are cancelled.  Driver 1 stays in
\* the spatial index, so no run finds the fleet empty and cancels its ride.
InitRematch ==
    /\ \E left \in BOOLEAN :
          /\ drivers = [d \in 1..NumDrivers |->
                          [status |-> IF d = 1 THEN DriverStatusBusy
                                      ELSE IF left THEN DriverStatusOffline
                                      ELSE DriverStatusOnline,
                           totalTrips |-> 0, located |-> TRUE, dist |-> 0,
                           rating |-> MaxRating]]
          /\ meta = [d \in 1..NumDrivers |->
                       IF d # 1 /\ left THEN DriverStatusOffline ELSE DriverStatusOnline]
          /\ geo = [d \in 1..NumDrivers |-> d = 1 \/ ~left]
    /\ rides = <<[userId |-> 1, driverId |-> 1, status |-> RideStatusDriverAssigned,
                  key |-> NoKey, cancelledBy |-> "", vehicleType |-> VehicleTypeSedan,
                  estimatedDistanceKm |-> RideKm * 1000,
                  estimatedFare |->
                      CalculateEstimatedFare(VehicleTypeSedan, RideKm * 1000,
                                             EstimateDuration(RideKm * 1000),
                                             CalculateSurge(10, 2)).Total,
                  surgeMultiplier |-> 10]>>
    /\ offers = [o \in OfferIds |->
                   IF o = <<1, 1>>
                   THEN [status |-> OfferStatusAccepted, expiresAt |-> OfferTimeout,
                         rows |-> 1]
                   ELSE IF o = <<1, 2>>
                   THEN [status |-> OfferStatusExpired, expiresAt |-> OfferTimeout,
                         rows |-> 1]
                   ELSE [status |-> OfferAbsent, expiresAt |-> 0, rows |-> 0]]
    /\ trips = <<>>
    /\ activeRide = [d \in 1..NumDrivers |-> IF d = 1 THEN 1 ELSE NoRide]
    /\ now = 0
    /\ procs = [p \in Procs |-> Idle]
    /\ commits = [r \in RideIds |-> IF r = 1 THEN 1 ELSE 0]
    /\ issued = [rides |-> {1}, trips |-> {}]
    /\ IdemInit
    /\ quote = NoQuote
    /\ ServiceInit
    /\ budget = [op \in OpNames |->
                   CASE op = "CreateRide" -> MaxCreate
                     [] op \in {"AcceptRide", "DeclineRide", "CancelRide"} -> MaxOther
                     [] OTHER -> 0]

NextRematch ==
    \/ CreateRideSteps({NoKey})
    \/ \E p \in Procs : M_Select(p)
    \/ \E p \in Procs, d \in Drivers : M_Offer(p, d)
    \/ \E p \in Procs : M_CtxCancelled(p)
    \/ \E p \in Procs, q \in OwnAcceptRequests : AR_Start(p, q[1], q[2], q[3])
    \/ \E p \in Procs : AR_LockRide(p)
    \/ \E p \in Procs : AR_Commit(p)
    \/ \E p \in Procs : AR_SetActiveRide(p)
    \/ DeclineRideSteps(OwnDeclineRequests)
    \/ CancelRideSteps
    \/ ReturnStep
    \/ Tick

SpecRematch == InitRematch /\ [][NextRematch]_vars

\* Location updates of the drivers while clients track the assigned ride.
\* Nothing but the drivers' updates is a source of messages for the topic.
InitLocation ==
    /\ InitTripStore
    /\ budget = [op \in OpNames |-> IF op = "UpdateLocation" THEN MaxUpdates ELSE 0]

NextLocation ==
    \/ UpdateLocationSteps
    \/ ReturnStep
    \/ \E c \in Chans, r \in RideIds : TR_Start(c, r)
    \/ \E c \in Chans : TR_Register(c)
    \/ \E c \in Chans : TR_Done(c)
    \/ \E c \in Chans : TR_Unregister(c)

SpecLocation == InitLocation /\ [][NextLocation]_vars

\* The rate limiter alone: requests of the clients on the paths, and time.
NextRateLimit ==
    \/ \E k \in RLKeys : RL_Request(k)
    \/ RL_Tick

SpecRateLimit == InitPricing /\ [][NextRateLimit]_vars

\* ---------------------------------------------------------------- claims

AcceptedOffers(r) == {o \in OfferIds : o[1] = r /\ offers[o].status = OfferStatusAccepted}

\* A finished AcceptRide call of worker p.
AcceptDone(p) == procs[p].op = "AcceptRide" /\ procs[p].pc = "done"

\* The call of worker p found, when it started, its own pending and unexpired
\* offer for the ride it names.
AcceptHadOffer(p) ==
    /\ procs[p].offD = procs[p].driver
    /\ procs[p].offR = procs[p].ride
    /\ procs[p].seenOff = OfferStatusPending
    /\ procs[p].seenNow < procs[p].seenExp

\* C1: in every reachable state each user has at most one ride whose status
\* is neither completed nor cancelled.
C1_OneActiveRidePerUser ==
    \A u \in Users : Cardinality(GetActiveRideByUserID(u)) <= 1

\* C2: in every reachable state each driver is the driverId of at most one
\* ride whose status is neither completed nor cancelled; stated for the
\* states in which no user has two active rides, so that the rides are those
\* of different users.
C2_OneActiveRidePerDriver ==
    C1_OneActiveRidePerUser =>
        \A d \in Drivers : Cardinality(GetActiveRideByDriverID(d)) <= 1

\* C3: for every ride at most one AcceptRide transaction commits, at most one
\* offer of the ride is accepted, and the ride's driverId is the driver of
\* that accepted offer.
C3_SingleCommit ==
    \A r \in RideIds :
        /\ commits[r] <= 1
        /\ Cardinality(AcceptedOffers(r)) <= 1
        /\ \A o \in AcceptedOffers(r) : rides[r].driverId = o[2]

\* C3 witness: one AcceptRide committed for a ride and another driver, who
\* also held a pending offer for it, called AcceptRide and did not commit.
C3_Witness ==
    \E r \in RideIds, p \in Procs :
        /\ commits[r] = 1
        /\ AcceptDone(p) /\ AcceptHadOffer(p)
        /\ procs[p].ride = r
        /\ procs[p].res # "OK"
        /\ rides[r].driverId # NoDriver
        /\ rides[r].driverId # procs[p].driver

\* Nothing but ride requests and AcceptRide has been called; a ride that has
\* offers is then in matching until an AcceptRide commits.
OnlyAccepts == budget["CancelRide"] = MaxOther /\ budget["DeclineRide"] = MaxOther

\* C4: when two drivers, each with an unexpired pending offer for the same
\* ride in matching, call AcceptRide and nothing else interferes, one call
\* succeeds and the other returns RIDE_ALREADY_ASSIGNED; the ride is
\* driver_assigned with the winner and the loser's driver is still online.
C4_LoserGetsAlreadyAssigned ==
    \A p, q \in Procs :
        ( /\ p # q /\ OnlyAccepts
          /\ AcceptDone(p) /\ AcceptDone(q)
          /\ AcceptHadOffer(p) /\ AcceptHadOffer(q)
          /\ procs[p].ride = procs[q].ride
          /\ procs[p].driver # procs[q].driver
          /\ procs[p].res = "OK" )
        => /\ procs[q].res = "RIDE_ALREADY_ASSIGNED"
           /\ rides[procs[p].ride].status = RideStatusDriverAssigned
           /\ rides[procs[p].ride].driverId = procs[p].driver
           /\ drivers[procs[q].driver].status = DriverStatusOnline

\* No call and no matching run is in progress.
Quiescent == \A p \in Procs : procs[p].pc \in {"idle", "done"}

\* C5: a ride whose driverId is set has exactly one accepted offer, and once
\* every call has finished each of its other offers is declined or expired.
C5_OneAcceptedOffer ==
    \A r \in 1..Len(rides) :
        rides[r].driverId # NoDriver =>
            /\ Cardinality(AcceptedOffers(r)) = 1
            /\ Quiescent =>
                  \A o \in OfferIds :
                      (o[1] = r /\ offers[o].status \notin {OfferAbsent, OfferStatusAccepted})
                          => offers[o].status \in {OfferStatusDeclined, OfferStatusExpired}

\* C6: every change of a ride's stored status is a pair of the transition
\* table; in particular completed and cancelled are never left.
C6_ValidTransitions ==
    [][\A r \in 1..Len(rides) :
          rides'[r].status # rides[r].status
              => CanTransitionTo(rides[r].status, rides'[r].status)]_vars

\* C7: a ride's driverId is null while its status is pending or matching and
\* non-null once it is driver_assigned, driver_arrived, in_progress or completed.
C7_DriverIdMatchesStatus ==
    \A r \in 1..Len(rides) :
        /\ rides[r].status \in {RideStatusPending, RideStatusMatching}
              => rides[r].driverId = NoDriver
        /\ rides[r].status \in {RideStatusDriverAssigned, RideStatusDriverArrived,
                                 RideStatusInProgress, RideStatusCompleted}
              => rides[r].driverId # NoDriver

\* C8: a driver's stored status changes only offline -> online, online ->
\* offline, online -> busy by the commit of that driver's AcceptRide, and
\* busy -> online by EndTrip or CancelRide leaving the driver no active ride.
C8_DriverTransitions ==
    [][\A d \in Drivers :
          drivers'[d].status # drivers[d].status =>
              \/ /\ drivers[d].status = DriverStatusOffline
                 /\ drivers'[d].status = DriverStatusOnline
              \/ /\ drivers[d].status = DriverStatusOnline
                 /\ drivers'[d].status = DriverStatusOffline
              \/ /\ drivers[d].status = DriverStatusOnline
                 /\ drivers'[d].status = DriverStatusBusy
                 /\ \E p \in Procs : /\ procs[p].op = "AcceptRide"
                                     /\ procs[p].pc = "ar_commit"
                                     /\ procs'[p].pc = "ar_cache"
                                     /\ procs[p].driver = d
              \/ /\ drivers[d].status = DriverStatusBusy
                 /\ drivers'[d].status = DriverStatusOnline
                 /\ \E p \in Procs : /\ procs[p].op \in {"EndTrip", "CancelRide"}
                                     /\ procs'[p] # procs[p]
                 /\ GetActiveRideByDriverID(d)' = {}]_vars

\* The offer checks as the claim C9 lists them: an offer is expired from the
\* instant expiresAt on.
ListedOfferCheck(offStatus, offDriver, offRide, expiresAt, driverID, rideID, t) ==
    IF offStatus = OfferAbsent THEN "NOT_FOUND"
    ELSE IF offDriver # driverID THEN "UNAUTHORIZED"
    ELSE IF offRide # rideID THEN "BAD_REQUEST"
    ELSE IF expiresAt <= t THEN "OFFER_EXPIRED"
    ELSE IF offStatus # OfferStatusPending THEN "BAD_REQUEST"
    ELSE ""

\* C9: an AcceptRide call for which one of the listed checks on the offer it
\* read fails returns that first failure without going further; a call that
\* passes them and reads the ride in a status other than matching returns
\* RIDE_ALREADY_ASSIGNED.
C9_CheckOrder ==
    \A p \in Procs :
        procs[p].op = "AcceptRide" =>
            LET c == ListedOfferCheck(procs[p].seenOff, procs[p].offD, procs[p].offR,
                                      procs[p].seenExp, procs[p].driver, procs[p].ride,
                                      procs[p].seenNow)
            IN  IF c # ""
                THEN procs[p].pc = "done" /\ procs[p].res = c
                ELSE (procs[p].pc = "done"
                      /\ procs[p].seen \in RideStatuses \ {RideStatusMatching})
                        => procs[p].res = "RIDE_ALREADY_ASSIGNED"

\* The four writes of a successful AcceptRide of worker p, and nothing else.
AcceptCommitEffect(p) ==
    LET r == procs[p].ride
        d == procs[p].driver
        mine == <<procs[p].offR, procs[p].offD>>
    IN  /\ offers' = [o \in OfferIds |->
                        IF o = mine
                        THEN [offers[o] EXCEPT !.status = OfferStatusAccepted]
                        ELSE IF o[1] = r /\ offers[o].status = OfferStatusPending
                        THEN [offers[o] EXCEPT !.status = OfferStatusExpired]
                        ELSE offers[o]]
        /\ rides' = [rides EXCEPT ![r].driverId = d,
                                  ![r].status = RideStatusDriverAssigned]
        /\ drivers' = [drivers EXCEPT ![d].status = DriverStatusBusy]
        /\ activeRide' = activeRide

\* C10: every step of an AcceptRide call leaves offers, rides, drivers and the
\* ActiveRide pointers as they are, except the one step that commits, which
\* makes the four writes together, and the step after it, which sets the
\* caller's ActiveRide pointer; a call that ends in an error has not committed.
C10_AcceptAtomic ==
    [][\A p \in Procs :
          (procs'[p] # procs[p] /\ procs'[p].op = "AcceptRide") =>
              IF procs'[p].pc = "ar_cache"
              THEN procs[p].pc = "ar_commit" /\ AcceptCommitEffect(p)
              ELSE IF procs'[p].pc = "done" /\ procs'[p].res = "OK"
              THEN /\ procs[p].pc = "ar_cache"
                   /\ offers' = offers /\ rides' = rides /\ drivers' = drivers
                   /\ activeRide' = [activeRide EXCEPT ![procs[p].driver] = procs[p].ride]
              ELSE /\ procs[p].pc # "ar_cache"
                   /\ offers' = offers /\ rides' = rides /\ drivers' = drivers
                   /\ activeRide' = activeRide]_vars

\* C10 witness: one AcceptRide has succeeded and expired another pending offer
\* of its ride, and another AcceptRide has ended in an error.
C10_Witness ==
    \E p, q \in Procs :
        /\ AcceptDone(p) /\ procs[p].res = "OK"
        /\ AcceptDone(q) /\ procs[q].res \notin {"", "OK"}
        /\ offers[<<procs[p].offR, procs[p].offD>>].status = OfferStatusAccepted
        /\ \E o \in OfferIds : /\ o[1] = procs[p].ride
                               /\ offers[o].status = OfferStatusExpired
        /\ activeRide[procs[p].driver] = procs[p].ride

\* A step in which the CancelRide call of slot p returns.
CancelReturns(p) ==
    /\ procs'[p].op = "CancelRide" /\ procs'[p].pc = "done"
    /\ procs[p].pc # "done"

\* C11: CancelRide of an existing ride fails with INVALID_TRANSITION exactly
\* when the status it reads is completed or cancelled and succeeds from every
\* other status; when it succeeds the ride is cancelled and the driver the
\* ride then carries, if any, has status online.
C11_CancelReleasesDriver ==
    [][\A p \in Procs :
          (CancelReturns(p) /\ procs'[p].res # "NOT_FOUND") =>
              LET r == procs'[p].ride
              IN  /\ procs'[p].res \in {"OK", "INVALID_TRANSITION"}
                  /\ procs'[p].res = "INVALID_TRANSITION"
                        <=> procs'[p].seen \in {RideStatusCompleted, RideStatusCancelled}
                  /\ procs'[p].res = "OK" =>
                        /\ rides'[r].status = RideStatusCancelled
                        /\ rides'[r].driverId # NoDriver
                              => drivers'[rides'[r].driverId].status = DriverStatusOnline]_vars

\* Two requests that have been answered and that carried the same key.
AnsweredPair(i, j) ==
    /\ i # j
    /\ reqs[i].pc = "done" /\ reqs[j].pc = "done"
    /\ reqs[i].key = reqs[j].key

\* C12: two answered requests with the same key and the same body have
\* received the same response (status and body), and the handler behind the
\* middleware has answered 2xx at most once for the key.
C12_IdempotencyLaw ==
    \A i, j \in Reqs :
        (AnsweredPair(i, j) /\ reqs[i].body = reqs[j].body) =>
            /\ reqs[i].resp = reqs[j].resp
            /\ served[reqs[i].key] <= 1

\* C13: a request that shares its key with an earlier request and has a
\* different body is answered IDEMPOTENCY_CONFLICT by the cache lookup and
\* never goes on to the lock or the handler, whatever became of the earlier
\* request.
C13_ConflictOnDifferentBody ==
    \A i, j \in Reqs :
        (/\ i < j
         /\ reqs[j].pc # "new"
         /\ reqs[i].key = reqs[j].key
         /\ reqs[i].body # reqs[j].body)
            => reqs[j].pc = "done" /\ reqs[j].resp = IdempotencyConflict

\* The requests that hold a place between their SetNX and the end of their
\* deferred Del, for key k.
Executing(k) == {i \in Reqs : reqs[i].key = k /\ reqs[i].pc \in {"serve", "store", "unlock"}}

\* C14: for every key at most one request is between acquiring the lock and
\* releasing it, the lock key exists exactly while such a request does and it
\* is that request which set it, and a request leaving the lock step is
\* answered REQUEST_IN_PROGRESS exactly when it found the lock key.
C14_LockHeldWhileExecuting ==
    [][/\ \A k \in IdemKeys :
             /\ Cardinality(Executing(k)') <= 1
             /\ LockHeld(k)' <=> Executing(k)' # {}
             /\ LockHeld(k)' => idemLock'[k].owner \in Executing(k)'
       /\ \A i \in Reqs :
             (reqs[i].pc = "lock" /\ reqs'[i].pc # "lock") =>
                 IF LockHeld(reqs[i].key)
                 THEN reqs'[i].pc = "done" /\ reqs'[i].resp = RequestInProgress
                 ELSE reqs'[i].pc = "serve"]_vars

\* C15: a ride request whose idempotency key already belongs to a ride is
\* answered with that ride, and neither the request nor the matching run the
\* handler starts for it creates a ride or changes any ride or any offer.
C15_ReplayChangesNothing ==
    [][\A p \in Procs :
          (procs'[p] # procs[p] /\ (procs[p].replay \/ procs'[p].replay)) =>
              /\ rides' = rides
              /\ offers' = offers
              /\ (procs'[p].op = "CreateRide" /\ procs'[p].pc = "done") =>
                    /\ procs'[p].res = "OK"
                    /\ rides[procs'[p].ride].key = procs'[p].key]_vars

\* C16: when CreateRide returns a ride it has created, the stored ride has
\* status matching and the returned status is the stored one.
C16_CreatedRideIsMatching ==
    \A p \in Procs :
        (/\ procs[p].op = "CreateRide" /\ procs[p].pc = "done"
         /\ procs[p].res = "OK" /\ ~procs[p].replay)
            => /\ rides[procs[p].ride].status = RideStatusMatching
               /\ procs[p].seen = rides[procs[p].ride].status

C18_NoDriversCancelsRide ==
    [][\A p \in Procs :
          (procs[p].op = "Match" /\ procs'[p] # procs[p]) =>
              /\ procs'[p].pc = "m_cancel" =>
                    /\ GetNearbyDrivers = {} /\ GetOnlineDrivers = {}
                    /\ rides' = rides /\ offers' = offers
              /\ procs[p].pc = "m_cancel" =>
                    /\ rides'[procs[p].ride].status = RideStatusCancelled
                    /\ rides'[procs[p].ride].cancelledBy = "system"
                    /\ offers' = offers]_vars

\* The order the claim C19 gives: higher score first, then lower distance,
\* then lower id.
ListedBefore(a, b, nearby) ==
    \/ Score(a, nearby) > Score(b, nearby)
    \/ /\ Score(a, nearby) = Score(b, nearby)
       /\ \/ drivers[a].dist < drivers[b].dist
          \/ drivers[a].dist = drivers[b].dist /\ a < b

\* The first three, or fewer, of the scored drivers in that order.
ListedChoice(scored, nearby) ==
    {d \in scored : Cardinality({e \in scored : ListedBefore(e, d, nearby)}) < 3}

\* C19: the drivers a matching run selects for offers are the first three
\* (or fewer) of its filtered candidates by score descending, ties by lower
\* distance and then by id.
C19_TopThreeByScore ==
    [][\A p \in Procs :
          (procs[p].op = "Match" /\ procs[p].pc = "m_select"
           /\ procs'[p].pc = "m_offer") =>
              LET nearby == GetNearbyDrivers
                  candidates == IF nearby # {} THEN nearby ELSE GetOnlineDrivers
                  chosen == {procs'[p].cands[i] : i \in 1..Len(procs'[p].cands)}
              IN  chosen = ListedChoice(ScoreDrivers(procs[p].ride, candidates), nearby)]_vars

\* A call of operation op that starts in this step on a pending offer of the
\* calling driver whose expiresAt has passed.
StartsOnExpired(p, op) ==
    /\ procs[p].op # op
    /\ procs'[p].op = op
    /\ procs'[p].offD = procs'[p].driver
    /\ LET off == offers[<<procs'[p].offR, procs'[p].offD>>]
       IN  /\ off.status = OfferStatusPending
           /\ off.expiresAt < now

\* C20: a pending offer whose expiresAt has passed is expired for every
\* operation that reads it: GetPendingOffers lists exactly the driver's
\* pending offers with expiresAt > now, AcceptRide on it returns
\* OFFER_EXPIRED, and DeclineRide does not go on to decline it.
C20_ExpiredEverywhere ==
    [][/\ \A d \in Drivers :
             GetPendingByDriverID(d)' =
                 {o \in OfferIds : /\ o[2] = d
                                   /\ offers'[o].status = OfferStatusPending
                                   /\ ~(offers'[o].expiresAt <= now')}
       /\ \A p \in Procs :
             /\ (StartsOnExpired(p, "AcceptRide") /\ procs'[p].ride = procs'[p].offR) =>
                   (procs'[p].pc = "done" /\ procs'[p].res = "OFFER_EXPIRED")
             /\ StartsOnExpired(p, "DeclineRide") =>
                   (procs'[p].pc = "done" /\ procs'[p].res # "OK")]_vars

\* A step taken by a DeclineRide call of worker p.
DeclineStep(p) ==
    /\ procs'[p] # procs[p]
    /\ procs'[p].op = "DeclineRide"

\* C21: a DeclineRide call writes declined on its offer only when the offer
\* is pending at the moment of the write, and then returns success; a call
\* that fails leaves the offer as it was; no step of the call changes a
\* ride, a driver or another offer, and an accepted or expired offer is
\* never overwritten.
C21_DeclineOnlyPending ==
    [][\A p \in Procs :
          DeclineStep(p) =>
              LET o == <<procs'[p].offR, procs'[p].offD>>
              IN  /\ rides' = rides
                  /\ drivers' = drivers
                  /\ \A x \in OfferIds \ {o} : offers'[x] = offers[x]
                  /\ offers'[o] # offers[o] =>
                        /\ offers[o].status = OfferStatusPending
                        /\ offers'[o].status = OfferStatusDeclined
                        /\ procs'[p].res = "OK"
                  /\ (procs'[p].pc = "done" /\ procs'[p].res # "OK") =>
                        offers'[o] = offers[o]]_vars

\* C22: a matching run, once scheduled, ends only by completing: it has
\* inserted (or found already present) the offer of its last selected driver,
\* or it has cancelled the ride because no driver was found, or scoring left
\* no candidate; it is never cut short by the end of the request that
\* scheduled it.
C22_MatchingRunsToCompletion ==
    [][\A p \in Procs :
          (procs[p].op = "Match" /\ procs'[p].op # "Match") =>
              LET r == procs[p].ride
                  nearby == GetNearbyDrivers
                  candidates == IF nearby # {} THEN nearby ELSE GetOnlineDrivers
              IN  \/ /\ procs[p].pc = "m_select"
                     /\ candidates # {}
                     /\ ScoreDrivers(r, candidates) = {}
                  \/ /\ procs[p].pc = "m_cancel"
                     /\ rides'[r].status = RideStatusCancelled
                  \/ /\ procs[p].pc = "m_offer"
                     /\ Len(procs[p].cands) = 1
                     /\ offers'[<<r, Head(procs[p].cands)>>].status # OfferAbsent]_vars

\* The breakdown as the claim C30 gives it, for the rates of the class (an
\* unknown class takes the sedan rates), each field rounded to the paisa.
ListedFare(class, km, mins, surge) ==
    LET rates == IF class \in {VehicleTypeAuto, VehicleTypeMini, VehicleTypeSUV}
                 THEN fareConfigs[class] ELSE fareConfigs.sedan
        base == rates.BaseFare * Scale
        perKm == km * rates.PerKmRate * (Scale \div 1000)
        perMin == mins * rates.PerMinRate * (Scale \div 10)
        subtotal == base + perKm + perMin
        surgeAmount == (subtotal * (surge - 10)) \div 10
        total == subtotal + surgeAmount
    IN  IF total < rates.MinFare * Scale
        THEN [BaseFare |-> round(base), DistanceFare |-> round(perKm),
              TimeFare |-> round(perMin), SurgeAmount |-> 0,
              Total |-> rates.MinFare * 100]
        ELSE [BaseFare |-> round(base), DistanceFare |-> round(perKm),
              TimeFare |-> round(perMin), SurgeAmount |-> round(surgeAmount),
              Total |-> round(total)]

C29_StoredSurgeIsFareSurge ==
    /\ \A r \in 1..Len(rides) :
          rides[r].estimatedFare =
              CalculateEstimatedFare(rides[r].vehicleType, rides[r].estimatedDistanceKm,
                                     EstimateDuration(rides[r].estimatedDistanceKm),
                                     rides[r].surgeMultiplier).Total
    /\ \A t \in 1..Len(trips) :
          trips[t].status = TripStatusCompleted =>
              trips[t].fare =
                  CalculateActualFare(rides[trips[t].rideId].vehicleType,
                                      trips[t].actualDistanceKm, trips[t].actualDurationMin,
                                      rides[trips[t].rideId].surgeMultiplier)

\* A step taken by a StartTrip call of worker p.
StartStep(p) ==
    /\ procs'[p] # procs[p]
    /\ procs'[p].op = "StartTrip"

\* C23: a StartTrip call writes (inserts its trip, moves the ride) only
\* while the ride's stored status is driver_arrived; the trip it inserts is
\* started with startTime = now, the status it writes is in_progress, and a
\* successful call leaves a trip for the ride; a call that fails has written
\* nothing.
C23_StartOnlyFromArrived ==
    [][\A p \in Procs :
          StartStep(p) =>
              LET r == procs'[p].ride
              IN  /\ (trips' # trips \/ rides' # rides) =>
                        rides[r].status = RideStatusDriverArrived
                  /\ trips' # trips =>
                        /\ Len(trips') = Len(trips) + 1
                        /\ SubSeq(trips', 1, Len(trips)) = trips
                        /\ trips'[Len(trips')].rideId = r
                        /\ trips'[Len(trips')].status = TripStatusStarted
                        /\ trips'[Len(trips')].startTime = now
                  /\ rides' # rides =>
                        rides' = [rides EXCEPT ![r].status = RideStatusInProgress]
                  /\ (procs'[p].pc = "done" /\ procs'[p].res = "OK") =>
                        \E t \in 1..Len(trips') : trips'[t].rideId = r
                  /\ (procs'[p].pc = "done" /\ procs'[p].res # "OK") =>
                        /\ procs[p].op = "idle"
                        /\ trips' = trips /\ rides' = rides]_vars

\* C24: when a StartTrip call has created the trip of a ride and returned,
\* and nothing else is running, a second StartTrip call for the ride is not
\* refused: it goes on to look the trip up and return it.
C24_StartTwiceReturnsTrip ==
    [][\A p \in Procs :
          (/\ \A q \in Procs : procs[q].op = "idle"
           /\ procs'[p].op = "StartTrip"
           /\ GetByRideID(procs'[p].ride) # {}
           /\ \A t \in GetByRideID(procs'[p].ride) : trips[t].status = TripStatusStarted
           /\ rides[procs'[p].ride].status = RideStatusInProgress)
          => ~(procs'[p].pc = "done" /\ procs'[p].res # "OK")]_vars

\* C25: no ride has more than one trip.
C25_OneTripPerRide ==
    \A r \in 1..Len(rides) : Cardinality(GetByRideID(r)) <= 1

\* C26: once the calls have returned, a trip is in started or paused only
\* if its ride is in driver_arrived or in_progress; the trip of a cancelled or
\* completed ride is not left started or paused.
C26_OpenTripHasOpenRide ==
    (\A p \in Procs : procs[p].op = "idle") =>
        \A t \in 1..Len(trips) :
            trips[t].status \in {TripStatusStarted, TripStatusPaused} =>
                rides[trips[t].rideId].status \in
                    {RideStatusDriverArrived, RideStatusInProgress}

\* C27: PauseTrip goes on to its write exactly from started and ResumeTrip
\* exactly from paused, each failing from any other status; the write of
\* PauseTrip leaves the trip paused and the write of ResumeTrip leaves it
\* started; and a resume of a paused trip adds the time since the trip was
\* paused to pauseDurationSecs.
C27_PauseAccumulates ==
    [][\A p \in Procs :
          LET t == procs'[p].trip
          IN  /\ (procs[p].op = "idle" /\ procs'[p].op = "PauseTrip"
                  /\ t \in 1..Len(trips)) =>
                    (procs'[p].pc = "pt_write" <=> trips[t].status = TripStatusStarted)
              /\ (procs[p].op = "idle" /\ procs'[p].op = "ResumeTrip"
                  /\ t \in 1..Len(trips)) =>
                    (procs'[p].pc = "rt_write" <=> trips[t].status = TripStatusPaused)
              /\ (procs[p].op = "PauseTrip" /\ procs[p].pc = "pt_write"
                  /\ procs'[p].pc = "done") =>
                    trips'[t].status = TripStatusPaused
              /\ (procs[p].op = "ResumeTrip" /\ procs[p].pc = "rt_write"
                  /\ procs'[p].pc = "done") =>
                    /\ trips'[t].status = TripStatusStarted
                    /\ trips[t].status = TripStatusPaused =>
                          trips'[t].pauseDurationSecs =
                              trips[t].pauseDurationSecs + (now - trips[t].updatedAt)]_vars

\* A step in which an EndTrip call of worker p returns success.
EndSucceeds(p) ==
    /\ procs[p].op = "EndTrip"
    /\ procs[p].pc # "done"
    /\ procs'[p].pc = "done"
    /\ procs'[p].res = "OK"

\* C28: an EndTrip call goes on only for a trip read in started or paused;
\* when it returns success the trip is completed with its fare set, the ride
\* is completed and the driver is online; and a driver's totalTrips never
\* exceeds the number of that driver's completed trips.
C28_EndTripOnce ==
    [][/\ \A p \in Procs :
             /\ (procs[p].op = "idle" /\ procs'[p].op = "EndTrip"
                 /\ procs'[p].pc # "done") =>
                   procs'[p].seen \in {TripStatusStarted, TripStatusPaused}
             /\ EndSucceeds(p) =>
                   /\ trips'[procs[p].trip].status = TripStatusCompleted
                   /\ trips'[procs[p].trip].fare # <<>>
                   /\ rides'[procs[p].ride].status = RideStatusCompleted
                   /\ drivers'[procs[p].driver].status = DriverStatusOnline
       /\ \A d \in Drivers :
             drivers'[d].totalTrips <=
                 Cardinality({t \in 1..Len(trips') :
                                 /\ trips'[t].driverId = d
                                 /\ trips'[t].status = TripStatusCompleted})]_vars

\* The surge table as the claim C31 gives it, in tenths, with the ratio
\* demand / supply compared as a fraction.
ListedSurge(demand, supply) ==
    IF supply = 0 THEN 20
    ELSE IF 10 * demand < 10 * supply THEN 10
    ELSE IF 10 * demand < 15 * supply THEN 12
    ELSE IF 10 * demand < 20 * supply THEN 15
    ELSE IF 10 * demand < 30 * supply THEN 18
    ELSE 20

\* C31: CalculateSurge returned the multiplier of the listed table for the
\* counts it was called with, one of 1.0, 1.2, 1.5, 1.8 and 2.0, and no lower
\* demand at the same supply gives a higher multiplier.
C31_SurgeSteps ==
    quote.fn = "CalculateSurge" =>
        /\ quote.out = ListedSurge(quote.demandCount, quote.supplyCount)
        /\ quote.out \in {10, 12, 15, 18, 20}
        /\ \A demand \in 0..quote.demandCount :
              CalculateSurge(demand, quote.supplyCount) <= quote.out

\* A call whose ratio is exactly 1.5, the lower end of the 1.5 step.
C31_Witness ==
    /\ quote.fn = "CalculateSurge"
    /\ quote.supplyCount > 0
    /\ 2 * quote.demandCount = 3 * quote.supplyCount
    /\ quote.out = 15

\* The completed payments of trip t.
CompletedPayments(t) ==
    {i \in 1..Len(payments) :
        payments[i].tripId = t /\ payments[i].status = PaymentStatusCompleted}

\* C32: a trip has at most one completed payment, an idempotency key maps to
\* at most one payment, and every payment belongs to a completed trip whose
\* total fare is its amount.
C32_OneCompletedPaymentPerTrip ==
    /\ \A t \in 1..Len(trips) : Cardinality(CompletedPayments(t)) <= 1
    /\ \A k \in Keys \ {NoKey} : Cardinality(PaymentByIdempotencyKey(k)) <= 1
    /\ \A i \in 1..Len(payments) :
          /\ payments[i].tripId \in 1..Len(trips)
          /\ trips[payments[i].tripId].status = TripStatusCompleted
          /\ trips[payments[i].tripId].fare # <<>>
          /\ payments[i].amount = trips[payments[i].tripId].fare.Total

\* C33: a live counter expires one window after the first request that it
\* counted, and the last request was let through exactly when its
\* post-increment count did not exceed the limit.
C33_FixedWindow ==
    /\ \A k \in RLKeys :
          RLLive(k) => limiter[k].expiresAt = limiter[k].firstAt + RLWindow
    /\ answer # NoAnswer => (answer.allowed <=> answer.count <= RLRequests)

\* The sequence numbers of the messages in a channel, oldest first.
Seqs(c) == [i \in 1..Len(chans[c].buf) |-> chans[c].buf[i].seq]

\* Each stream wrote and holds its messages in the order of the broadcasts.
InBroadcastOrder ==
    \A c \in Chans :
        /\ \A i \in 1..Len(chans[c].buf) - 1 : Seqs(c)[i] < Seqs(c)[i + 1]
        /\ chans[c].buf # <<>> => chans[c].last < Seqs(c)[1]

\* One iteration of the broadcast loop sends to channel c.
SendsTo(c) ==
    /\ dispatch.pc = "sending" /\ c \in dispatch.todo
    /\ dispatch'.todo = dispatch.todo \ {c}

\* C34: a broadcast under way always comes to its end whatever the streams
\* do; an iteration adds the message to a channel with a free slot and leaves
\* a full channel as it is, touching no other channel; and every stream holds
\* and writes its messages in the order of the broadcasts.
C34_BroadcastNeverBlocks ==
    /\ [](InBroadcastOrder /\ \A c \in Chans : Len(chans[c].buf) <= ChanCap)
    /\ [][\A c \in Chans : SendsTo(c) =>
             /\ chans'[c].buf = IF Len(chans[c].buf) < ChanCap
                                THEN Append(chans[c].buf, dispatch.msg)
                                ELSE chans[c].buf
             /\ \A b \in Chans \ {c} : chans'[b] = chans[b]]_vars
    /\ (dispatch.pc = "sending" ~> dispatch.pc = "idle")

\* A broadcast has gone round: the message was dropped for channel 1, which
\* is full, and is in channel 2 of the same ride.
C34_Witness ==
    /\ dispatch.pc = "sending" /\ dispatch.todo = {}
    /\ chans[1].state = "open" /\ chans[2].state = "open"
    /\ chans[1].ride = dispatch.msg.rideId /\ chans[2].ride = dispatch.msg.rideId
    /\ Len(chans[1].buf) = ChanCap
    /\ \A i \in 1..ChanCap : chans[1].buf[i] # dispatch.msg
    /\ \E i \in 1..Len(chans[2].buf) : chans[2].buf[i] = dispatch.msg

\* The UpdateLocation call of worker p returns success in this step.
UpdateAccepted(p) ==
    /\ procs[p].op = "UpdateLocation" /\ procs[p].pc # "done"
    /\ procs'[p].pc = "done" /\ procs'[p].res = "OK"

\* C35: when an UpdateLocation call of a driver who is the driver of a ride
\* that is not completed or cancelled returns success, an update record with
\* that ride and driver has been added to the topic.
C35_UpdatesArePublished ==
    [][\A p \in Procs :
         (UpdateAccepted(p) /\ GetActiveRideByDriverID(procs[p].driver) # {}) =>
             /\ Len(topic') = Len(topic) + 1
             /\ topic'[Len(topic')].driverId = procs[p].driver
             /\ topic'[Len(topic')].rideId \in GetActiveRideByDriverID(procs[p].driver)]_vars

\* C36: no driver whose stored status is offline is the driver of a ride that
\* is not completed or cancelled.
C36_NoOfflineDriverOnRide ==
    \A d \in Drivers :
        drivers[d].status = DriverStatusOffline => GetActiveRideByDriverID(d) = {}

\* C37: no two AcceptRide transactions wait for a row lock of each other, and
\* no AcceptRide call ends aborted with the store's raw error.
C37_NoLockWaitCycle ==
    \A p \in Procs :
        /\ ~InLockCycle(p)
        /\ ~(procs[p].op = "AcceptRide" /\ procs[p].pc = "done"
               /\ procs[p].res = "INTERNAL")

\* C38: whenever no call is running, a driver's presence ActiveRide pointer
\* names a ride only if that driver is the driver of that ride and the ride
\* is not completed or cancelled.
C38_ActiveRidePointerIsLive ==
    (\A p \in Procs : procs[p].op = "idle") =>
        \A d \in Drivers :
            activeRide[d] # NoRide => activeRide[d] \in GetActiveRideByDriverID(d)

\* The channels in the registry.
Registered == UNION {clients[r] : r \in DOMAIN clients}

\* C39: the listener has never sent on a closed channel; a channel is in the
\* registry, under its own ride, exactly from its registration until its
\* stream has ended, when it is closed; a broadcast under way has no closed
\* channel ahead of it; and no ride has an empty registry entry.
C39_NoSendOnClosedChannel ==
    /\ ~dispatch.panicked
    /\ \A c \in Chans :
          (c \in Registered) <=> chans[c].state \in {"open", "leaving"}
    /\ \A r \in DOMAIN clients :
          /\ clients[r] # {}
          /\ \A c \in clients[r] : chans[c].ride = r
    /\ dispatch.pc = "sending" =>
          \A c \in dispatch.todo : chans[c].state # "closed"

\* A broadcast for the ride is under way after the stream of channel 1, which
\* had written a message, ended and its channel was closed, while channel 2
\* is still registered.
C39_Witness ==
    /\ dispatch.pc = "sending"
    /\ chans[1].state = "closed" /\ chans[1].last > 0
    /\ dispatch.msg.rideId = chans[1].ride
    /\ DOMAIN clients = {chans[1].ride}
    /\ clients[chans[1].ride] = {2}

\* A matching run for ride r is under way.
RunOf(r) == \E p \in Procs : procs[p].op = "Match" /\ procs[p].ride = r

\* The CreateRide call that made ride r has not returned yet.
CreateOf(r) == \E p \in Procs : procs[p].op = "CreateRide" /\ procs[p].ride = r

\* An AcceptRide call for ride r is under way.
AcceptOf(r) ==
    \E p \in Procs : procs[p].op = "AcceptRide" /\ procs[p].ride = r /\ procs[p].pc # "done"

\* Every offer of ride r is declined or expired, by status or by the clock.
AllOffersSpent(r) ==
    \A d \in Drivers :
        \/ offers[<<r, d>>].status \in {OfferAbsent, OfferStatusDeclined, OfferStatusExpired}
        \/ IsExpired(offers[<<r, d>>].expiresAt, now)

====
